---- MODULE Spec2Model ----
(***************************************************************************)
(* sqledger: the interaction state machine and the script catalog.         *)
(*                                                                         *)
(* Two variants of the program live in the repository:                     *)
(*   variant "db"  src/src/event.rs + src/src/app.rs  (scripts stored in   *)
(*                 a database table, several named connections)            *)
(*   variant "fs"  src/src/main.rs                    (scripts are .sql    *)
(*                 files in a directory)                                   *)
(* One key event is one step.  Everything outside the process (database,   *)
(* file system, editor, clipboard) answers nondeterministically.           *)
(***************************************************************************)
EXTENDS Integers, Sequences, FiniteSets, TLC

\* ------------------------------------------------------------------ bounds
MaxLen == 2
MaxCreated == 2
MaxConns == 2
MaxScroll == 1
MaxKeys == 10
MaxTokens == 4
MaxRows == 2

\* --------------------------------------------------------------- constants
U16Max == 65535

\* Characters the user can type, as code points: ' ' and 'a'.
Chars == {32, 97}
IsSpace(c) == c \in {9, 10, 13, 32}

\* The ".sql" suffix of a script file name.
DotSql == <<46, 115, 113, 108>>

Contents == {"", "SELECT 1"}

\* ---------------------------------------------------------------- strings
RECURSIVE TrimStart(_)
TrimStart(s) ==
  IF s = <<>> THEN <<>>
  ELSE IF IsSpace(Head(s)) THEN TrimStart(Tail(s)) ELSE s

RECURSIVE TrimEnd(_)
TrimEnd(s) ==
  IF s = <<>> THEN <<>>
  ELSE IF IsSpace(s[Len(s)]) THEN TrimEnd(SubSeq(s, 1, Len(s) - 1)) ELSE s

\* A faulty variant of Trim: nothing is trimmed.
Trim_keep(s) == s

\* str::trim
Trim(s) == TrimEnd(TrimStart(s))

\* String::pop
Pop(s) == IF s = <<>> THEN <<>> ELSE SubSeq(s, 1, Len(s) - 1)

\* Ord for String / str: lexicographic on code points.
RECURSIVE StrLess(_, _)
StrLess(s, t) ==
  IF t = <<>> THEN FALSE
  ELSE IF s = <<>> THEN TRUE
  ELSE IF Head(s) < Head(t) THEN TRUE
  ELSE IF Head(s) > Head(t) THEN FALSE
  ELSE StrLess(Tail(s), Tail(t))

Buffers == UNION {[1..n -> Chars] : n \in 0..MaxLen}
Names == {Trim(b) : b \in Buffers} \ {<<>>}

\* ----------------------------------------------------------------- Option
None == <<>>
Some(i) == <<i>>

\* Faulty variants: the subtraction and the addition wrap around.
SaturatingSub_wrap(x, n) == (x - n) % (U16Max + 1)
SaturatingAdd_wrap(x, n) == (x + n) % (U16Max + 1)

\* u16::saturating_sub / saturating_add
SaturatingSub(x, n) == IF x < n THEN 0 ELSE x - n
SaturatingAdd(x, n) == IF x + n > U16Max THEN U16Max ELSE x + n

\* Position of the first element of seq satisfying the test, as an Option.
RECURSIVE PositionFrom(_, _, _)
PositionFrom(seq, x, i) ==
  IF i > Len(seq) THEN None
  ELSE IF seq[i] = x THEN Some(i - 1)
  ELSE PositionFrom(seq, x, i + 1)

NamesOf(seq) == [i \in 1..Len(seq) |-> seq[i].name]

\* ------------------------------------------------------------------ state
VARIABLES
  variant,                     \* "db" or "fs", fixed for a session
  running,                     \* "running", "quit" (Ok(false)), "failed" (Err)
  input_mode,
  filename_input,
  scripts,                     \* variant db: Vec<Script>
  sql_files,                   \* variant fs: Vec<String> of paths
  list_state,                  \* ListState.selected()
  query_result,
  query_row_count,
  script_content_preview,
  result_scroll_x,
  result_scroll_y,
  client,                      \* the database the active handle talks to
  current_connection_name,
  connections,                 \* name -> url
  connection_list_state,
  new_connection_name_buffer,
  saved_config,                \* connections as last written to config.toml
  db,                          \* the databases: rows of the script table
  files,                       \* the script directory: path -> content
  calls,                       \* what the last key event called, with outcomes
  keys,                        \* key events handled so far
  last,                        \* the mode and key of the last key event
  sql_content,                 \* execute_sql: the text of the script
  relevant_sql,                \* execute_sql: what is left to classify
  exec_pc,                     \* execute_sql: where the call stands
  sent,                        \* execute_sql: what went to the backend
  reply,                       \* execute_sql: what the backend answers
  column_names,                \* execute_sql: the names of the columns
  widths,                      \* execute_sql: the widths of the columns
  rows_data                    \* execute_sql: the texts of the cells

appVars == <<input_mode, filename_input, scripts, sql_files, list_state,
             query_result, query_row_count, script_content_preview,
             result_scroll_x, result_scroll_y>>
connVars == <<client, current_connection_name, connections,
              connection_list_state, new_connection_name_buffer, saved_config>>
worldVars == <<db, files>>
queryVars == <<reply, column_names, widths, rows_data>>
execVars == <<sql_content, relevant_sql, exec_pc, sent, queryVars>>
vars == <<variant, running, appVars, connVars, worldVars, calls, keys, last,
          execVars>>

Msg(text) == <<text, <<>>>>
MsgOf(text, arg) == <<text, arg>>

\* --------------------------------------------------- the database (db.rs)
Databases == {"db1", "db2"}
InitName == <<97>>
InitUrl == <<97>>

\* Client::connect resolves a url to a database server.
Host(url) == IF url = InitUrl THEN "db1" ELSE "db2"

\* A faulty variant of SortByName: the rows come in the order of their ids.
RECURSIVE SortByName_id(_)
SortByName_id(rows) ==
  IF rows = {} THEN <<>>
  ELSE LET m == CHOOSE x \in rows : \A y \in rows : x.id <= y.id
       IN <<m>> \o SortByName_id(rows \ {m})

RECURSIVE SortByName(_)
SortByName(rows) ==
  IF rows = {} THEN <<>>
  ELSE LET m == CHOOSE x \in rows :
                  \A y \in rows \ {x} : ~StrLess(y.name, x.name)
       IN <<m>> \o SortByName(rows \ {m})

\* get_all_scripts: the rows ordered by name, or an error when the
\* statement fails (up = FALSE).
get_all_scripts(table, up) ==
  IF up THEN [ok |-> TRUE, list |-> SortByName(table.rows)]
  ELSE [ok |-> FALSE, list |-> <<>>]

\* Each of the following gives the outcome and the table after the call.
Failed(table) == [ok |-> FALSE, table |-> table]
Done(table) == [ok |-> TRUE, table |-> table]

create_script(table, name, up) ==
  IF ~up \/ \E r \in table.rows : r.name = name THEN Failed(table)
  ELSE Done([rows |-> table.rows \cup
                      {[id |-> table.next, name |-> name, content |-> ""]},
             next |-> table.next + 1])

rename_script(table, id, new_name, up) ==
  IF ~up \/ ~\E r \in table.rows : r.id = id THEN Failed(table)
  ELSE IF \E r \in table.rows : r.id # id /\ r.name = new_name
  THEN Failed(table)
  ELSE Done([table EXCEPT !.rows =
          {IF r.id = id THEN [r EXCEPT !.name = new_name] ELSE r : r \in @}])

delete_script(table, id, up) ==
  IF ~up \/ ~\E r \in table.rows : r.id = id THEN Failed(table)
  ELSE Done([table EXCEPT !.rows = {r \in @ : r.id # id}])

update_script_content(table, id, content, up) ==
  IF ~up \/ ~\E r \in table.rows : r.id = id THEN Failed(table)
  ELSE Done([table EXCEPT !.rows =
          {IF r.id = id THEN [r EXCEPT !.content = content] ELSE r : r \in @}])

\* ------------------------------------------------------- App (src/app.rs)
\* A faulty variant of get_selected_script: the first script, whatever the
\* selection.
get_selected_script_first(ss, sel) ==
  IF sel # None /\ ss # <<>> THEN Some(ss[1]) ELSE None

get_selected_script(ss, sel) ==
  IF sel # None /\ sel[1] < Len(ss) THEN Some(ss[sel[1] + 1]) ELSE None

\* A faulty variant of update_preview: the preview is never cleared.
update_preview_stale(ss, sel) == "SELECT 1"

update_preview(ss, sel) ==
  LET s == get_selected_script(ss, sel)
  IN IF s # None THEN s[1].content ELSE "No scripts found."

\* Faulty variants of RefreshSelection: the selection is never repaired; an
\* invalid selection goes to the last entry instead of the first.
RefreshSelection_keep(ss, sel) == sel

RefreshSelection_last(ss, sel) ==
  IF sel # None /\ sel[1] < Len(ss) THEN sel
  ELSE IF ss # <<>> THEN Some(Len(ss) - 1) ELSE None

\* The selection refresh_scripts / rescan_scripts leaves, given the
\* reloaded list.
RefreshSelection(ss, sel) ==
  LET valid_selection_exists == sel # None /\ sel[1] < Len(ss)
  IN IF valid_selection_exists THEN sel
     ELSE IF ss # <<>> THEN Some(0) ELSE None

\* A faulty variant of refresh_scripts: the preview is not recomputed.
refresh_scripts_nopreview(loaded, ss, sel, preview) ==
  IF ~loaded.ok
  THEN [ok |-> FALSE, scripts |-> ss, sel |-> sel, preview |-> preview]
  ELSE [ok |-> TRUE, scripts |-> loaded.list,
        sel |-> RefreshSelection(loaded.list, sel), preview |-> preview]

\* refresh_scripts: loaded is the outcome of get_all_scripts; when it
\* failed the early return leaves the state alone.
refresh_scripts(loaded, ss, sel, preview) ==
  IF ~loaded.ok
  THEN [ok |-> FALSE, scripts |-> ss, sel |-> sel, preview |-> preview]
  ELSE LET sel2 == RefreshSelection(loaded.list, sel)
       IN [ok |-> TRUE, scripts |-> loaded.list, sel |-> sel2,
           preview |-> update_preview(loaded.list, sel2)]

NextIndex(n, sel) ==
  IF sel = None THEN 0 ELSE IF sel[1] >= n - 1 THEN 0 ELSE sel[1] + 1

PreviousIndex(n, sel) ==
  IF sel = None THEN 0 ELSE IF sel[1] = 0 THEN n - 1 ELSE sel[1] - 1

\* The event loop reads the next key while the session runs; the handler
\* arm is chosen by the mode and the key.  Keys that share an arm, or arms
\* that do the same, go under one name: "Esc" stands for every cancel key
\* of the mode, "Enter" for every run key, "Char" for a typed character.
Handling(v, m, k) ==
  /\ variant = v
  /\ running = "running"
  /\ input_mode = m
  /\ keys < MaxKeys
  /\ keys' = keys + 1
  /\ last' = [mode |-> m, key |-> k]
  /\ UNCHANGED execVars

\* What an action leaves alone when it only sets a message.
SetQueryResult(m) ==
  /\ query_result' = m
  /\ query_row_count' = None
  /\ result_scroll_x' = 0
  /\ result_scroll_y' = 0


\* execute_sql as the key handler sees it: a QueryResult or an error text.
ExecOutcomes ==
  { [ok |-> TRUE, text |-> Msg("<table>"), row_count |-> Some(1)],
    [ok |-> TRUE, text |-> Msg("Query returned 0 rows."), row_count |-> Some(0)],
    [ok |-> TRUE, text |-> Msg("Command executed successfully."), row_count |-> None],
    [ok |-> FALSE, text |-> Msg("Error executing query"), row_count |-> None] }

ClipboardOutcomes ==
  { Msg("Error: Failed to spawn wl-copy"),
    Msg("Results copied to clipboard!"),
    Msg("Error: Failed to write to wl-copy"),
    Msg("Error: Failed to get wl-copy stdin.") }

EnterNamePrompt ==
  Msg("Enter new script name. Press [Enter] to confirm, [Esc] to cancel.")

\* ================================================== variant db: event.rs
\* ------------------------------------------------------ InputMode::Normal
Normal_q ==
  /\ Handling("db", "Normal", "q")
  /\ running' = "quit"
  /\ calls' = <<>>
  /\ UNCHANGED <<variant, appVars, connVars, worldVars>>

Normal_j ==
  /\ Handling("db", "Normal", "j")
  /\ calls' = <<>>
  /\ IF scripts = <<>>
     THEN UNCHANGED <<list_state, script_content_preview>>
     ELSE /\ list_state' = Some(NextIndex(Len(scripts), list_state))
          /\ script_content_preview' = update_preview(scripts, list_state')
  /\ UNCHANGED <<variant, running, input_mode, filename_input, scripts,
                 sql_files, query_result, query_row_count, result_scroll_x,
                 result_scroll_y, connVars, worldVars>>

Normal_k ==
  /\ Handling("db", "Normal", "k")
  /\ calls' = <<>>
  /\ IF scripts = <<>>
     THEN UNCHANGED <<list_state, script_content_preview>>
     ELSE /\ list_state' = Some(PreviousIndex(Len(scripts), list_state))
          /\ script_content_preview' = update_preview(scripts, list_state')
  /\ UNCHANGED <<variant, running, input_mode, filename_input, scripts,
                 sql_files, query_result, query_row_count, result_scroll_x,
                 result_scroll_y, connVars, worldVars>>

Normal_D ==
  /\ Handling("db", "Normal", "D")
  /\ calls' = <<>>
  /\ input_mode' = "SelectingConnection"
  /\ connection_list_state' = Some(0)
  /\ UNCHANGED <<variant, running, filename_input, scripts, sql_files,
                 list_state, query_result, query_row_count,
                 script_content_preview, result_scroll_x, result_scroll_y,
                 client, current_connection_name, connections,
                 new_connection_name_buffer, saved_config, worldVars>>

\* A faulty variant of Normal_Enter: a run that fails opens the list of
\* connections and drops the selection.
Normal_Enter_reset ==
  /\ Handling("db", "Normal", "Enter")
  /\ get_selected_script(scripts, list_state) # None
  /\ calls' = <<"execute_sql">>
  /\ SetQueryResult(Msg("Error executing query"))
  /\ input_mode' = "SelectingConnection"
  /\ list_state' = None
  /\ UNCHANGED <<variant, running, filename_input, scripts, sql_files,
                 script_content_preview, connVars, worldVars>>

Normal_Enter ==
  /\ Handling("db", "Normal", "Enter")
  /\ IF get_selected_script(scripts, list_state) # None
     THEN \E result \in ExecOutcomes :
            /\ calls' = <<"execute_sql">>
            /\ query_result' = result.text
            /\ query_row_count' = result.row_count
            /\ result_scroll_x' = 0
            /\ result_scroll_y' = 0
     ELSE /\ calls' = <<>>
          /\ UNCHANGED <<query_result, query_row_count, result_scroll_x,
                         result_scroll_y>>
  /\ UNCHANGED <<variant, running, input_mode, filename_input, scripts,
                 sql_files, list_state, script_content_preview, connVars,
                 worldVars>>

Normal_h ==
  /\ Handling("db", "Normal", "h")
  /\ calls' = <<>>
  /\ result_scroll_x' = SaturatingSub(result_scroll_x, 4)
  /\ UNCHANGED <<variant, running, input_mode, filename_input, scripts,
                 sql_files, list_state, query_result, query_row_count,
                 script_content_preview, result_scroll_y, connVars, worldVars>>

Normal_l ==
  /\ Handling("db", "Normal", "l")
  /\ (result_scroll_x < MaxScroll \/ result_scroll_x + 4 * MaxScroll > U16Max)
  /\ calls' = <<>>
  /\ result_scroll_x' = SaturatingAdd(result_scroll_x, 4)
  /\ UNCHANGED <<variant, running, input_mode, filename_input, scripts,
                 sql_files, list_state, query_result, query_row_count,
                 script_content_preview, result_scroll_y, connVars, worldVars>>

Normal_Down ==
  /\ Handling("db", "Normal", "Down")
  /\ (result_scroll_y < MaxScroll \/ result_scroll_y + MaxScroll > U16Max)
  /\ calls' = <<>>
  /\ result_scroll_y' = SaturatingAdd(result_scroll_y, 1)
  /\ UNCHANGED <<variant, running, input_mode, filename_input, scripts,
                 sql_files, list_state, query_result, query_row_count,
                 script_content_preview, result_scroll_x, connVars, worldVars>>

Normal_Up ==
  /\ Handling("db", "Normal", "Up")
  /\ calls' = <<>>
  /\ result_scroll_y' = SaturatingSub(result_scroll_y, 1)
  /\ UNCHANGED <<variant, running, input_mode, filename_input, scripts,
                 sql_files, list_state, query_result, query_row_count,
                 script_content_preview, result_scroll_x, connVars, worldVars>>

Normal_c ==
  /\ Handling("db", "Normal", "c")
  /\ calls' = <<"wl-copy">>
  /\ \E m \in ClipboardOutcomes : SetQueryResult(m)
  /\ UNCHANGED <<variant, running, input_mode, filename_input, scripts,
                 sql_files, list_state, script_content_preview, connVars,
                 worldVars>>

\* 'e': write the script to a temp file, run the editor on it, save the
\* edited text back and refresh.  A failure to launch the editor is
\* propagated by `?` out of the handler.
Normal_e ==
  /\ Handling("db", "Normal", "e")
  /\ LET sel == get_selected_script(scripts, list_state)
     IN IF sel = None
        THEN /\ calls' = <<>>
             /\ UNCHANGED <<running, scripts, list_state, query_result,
                            query_row_count, script_content_preview,
                            result_scroll_x, result_scroll_y, db>>
        ELSE \/ \* fs::write of the temp file fails
                /\ calls' = <<"fs::write:Err">>
                /\ SetQueryResult(Msg("Error creating temp file"))
                /\ UNCHANGED <<running, scripts, list_state,
                               script_content_preview, db>>
             \/ \* open_editor returns Err
                /\ calls' = <<"fs::write:Ok", "open_editor:Err">>
                /\ running' = "failed"
                /\ UNCHANGED <<scripts, list_state, query_result,
                               query_row_count, script_content_preview,
                               result_scroll_x, result_scroll_y, db>>
             \/ \* the editor exits with a non-zero status
                /\ calls' = <<"fs::write:Ok", "open_editor:false">>
                /\ SetQueryResult(Msg("Editor exited with error."))
                /\ UNCHANGED <<running, scripts, list_state,
                               script_content_preview, db>>
             \/ \* the temp file cannot be read back
                /\ calls' = (<<"fs::write:Ok", "open_editor:true",
                                      "fs::read_to_string:Err">>)
                /\ SetQueryResult(Msg("Error reading temp file"))
                /\ UNCHANGED <<running, scripts, list_state,
                               script_content_preview, db>>
             \/ \E new_content \in Contents, up \in BOOLEAN, up2 \in BOOLEAN :
                  LET u == update_script_content(db[client], sel[1].id,
                                                 new_content, up)
                      r == refresh_scripts(get_all_scripts(u.table, up2),
                             scripts, list_state, script_content_preview)
                  IN IF u.ok
                     THEN /\ calls' = (<<"fs::write:Ok",
                                 "open_editor:true", "fs::read_to_string:Ok",
                                 "update_script_content:Ok",
                                 IF r.ok THEN "refresh_scripts:Ok"
                                         ELSE "refresh_scripts:Err">>)
                          /\ SetQueryResult(Msg("Saved changes to"))
                          /\ db' = [db EXCEPT ![client] = u.table]
                          /\ scripts' = r.scripts
                          /\ list_state' = r.sel
                          /\ script_content_preview' = r.preview
                          /\ UNCHANGED running
                     ELSE /\ calls' = (<<"fs::write:Ok",
                                 "open_editor:true", "fs::read_to_string:Ok",
                                 "update_script_content:Err">>)
                          /\ SetQueryResult(Msg("DB Error saving"))
                          /\ UNCHANGED <<running, scripts, list_state,
                                         script_content_preview, db>>
  /\ UNCHANGED <<variant, input_mode, filename_input, sql_files, connVars,
                 files>>

\* A faulty variant of Normal_a: the buffer of an earlier flow is kept.
Normal_a_noclear ==
  /\ Handling("db", "Normal", "a")
  /\ calls' = <<>>
  /\ input_mode' = "EditingFilename"
  /\ SetQueryResult(EnterNamePrompt)
  /\ UNCHANGED <<variant, running, filename_input, scripts, sql_files,
                 list_state, script_content_preview, connVars, worldVars>>

Normal_a ==
  /\ Handling("db", "Normal", "a")
  /\ calls' = <<>>
  /\ input_mode' = "EditingFilename"
  /\ filename_input' = <<>>
  /\ SetQueryResult(EnterNamePrompt)
  /\ UNCHANGED <<variant, running, scripts, sql_files, list_state,
                 script_content_preview, connVars, worldVars>>

\* A faulty variant of Normal_d: the prompt opens without a selected script.
Normal_d_nocheck ==
  /\ Handling("db", "Normal", "d")
  /\ calls' = <<>>
  /\ input_mode' = "ConfirmingDelete"
  /\ SetQueryResult(MsgOf("Delete script? (y/n)", <<>>))
  /\ UNCHANGED <<variant, running, filename_input, scripts, sql_files,
                 list_state, script_content_preview, connVars, worldVars>>

Normal_d ==
  /\ Handling("db", "Normal", "d")
  /\ calls' = <<>>
  /\ LET sel == get_selected_script(scripts, list_state)
     IN IF sel # None
        THEN /\ input_mode' = "ConfirmingDelete"
             /\ SetQueryResult(MsgOf("Delete script? (y/n)", sel[1].name))
        ELSE /\ SetQueryResult(Msg("No script selected to delete."))
             /\ UNCHANGED input_mode
  /\ UNCHANGED <<variant, running, filename_input, scripts, sql_files,
                 list_state, script_content_preview, connVars, worldVars>>

Normal_r ==
  /\ Handling("db", "Normal", "r")
  /\ calls' = <<>>
  /\ LET sel == get_selected_script(scripts, list_state)
     IN IF sel # None
        THEN /\ input_mode' = "RenamingScript"
             /\ filename_input' = sel[1].name
             /\ SetQueryResult(EnterNamePrompt)
        ELSE /\ SetQueryResult(Msg("No script selected to rename."))
             /\ UNCHANGED <<input_mode, filename_input>>
  /\ UNCHANGED <<variant, running, scripts, sql_files, list_state,
                 script_content_preview, connVars, worldVars>>

\* A faulty variant of Normal_help: opening the help clears the result.
Normal_help_reset ==
  /\ Handling("db", "Normal", "?")
  /\ calls' = <<>>
  /\ input_mode' = "ShowHelp"
  /\ SetQueryResult(Msg(""))
  /\ UNCHANGED <<variant, running, filename_input, scripts, sql_files,
                 list_state, script_content_preview, connVars, worldVars>>

Normal_help ==
  /\ Handling("db", "Normal", "?")
  /\ calls' = <<>>
  /\ input_mode' = "ShowHelp"
  /\ UNCHANGED <<variant, running, filename_input, scripts, sql_files,
                 list_state, query_result, query_row_count,
                 script_content_preview, result_scroll_x, result_scroll_y,
                 connVars, worldVars>>

Normal_other ==
  /\ Handling("db", "Normal", "other")
  /\ calls' = <<>>
  /\ UNCHANGED <<variant, running, appVars, connVars, worldVars>>


\* --------------------------------------------- InputMode::SelectingConnection
\* A faulty variant of NextConnectionIndex: the last entry does not wrap.
NextConnectionIndex_clamp(n, sel) ==
  IF sel = None THEN 0 ELSE IF sel[1] >= n - 1 THEN sel[1] ELSE sel[1] + 1

NextConnectionIndex(n, sel) ==
  IF sel = None THEN 0 ELSE IF sel[1] >= n - 1 THEN 0 ELSE sel[1] + 1

PreviousConnectionIndex(n, sel) ==
  IF sel = None THEN 0 ELSE IF sel[1] = 0 THEN n - 1 ELSE sel[1] - 1

NumConnections == Cardinality(DOMAIN connections)

SelectingConnection_j ==
  /\ Handling("db", "SelectingConnection", "j")
  /\ calls' = <<>>
  /\ connection_list_state' =
       IF NumConnections = 0 THEN connection_list_state
       ELSE Some(NextConnectionIndex(NumConnections, connection_list_state))
  /\ UNCHANGED <<variant, running, appVars, client, current_connection_name,
                 connections, new_connection_name_buffer, saved_config,
                 worldVars>>

SelectingConnection_k ==
  /\ Handling("db", "SelectingConnection", "k")
  /\ calls' = <<>>
  /\ connection_list_state' =
       IF NumConnections = 0 THEN connection_list_state
       ELSE Some(PreviousConnectionIndex(NumConnections, connection_list_state))
  /\ UNCHANGED <<variant, running, appVars, client, current_connection_name,
                 connections, new_connection_name_buffer, saved_config,
                 worldVars>>

SelectingConnection_a ==
  /\ Handling("db", "SelectingConnection", "a")
  /\ calls' = <<>>
  /\ input_mode' = "AddingConnectionName"
  /\ filename_input' = <<>>
  /\ UNCHANGED <<variant, running, scripts, sql_files, list_state,
                 query_result, query_row_count, script_content_preview,
                 result_scroll_x, result_scroll_y, connVars, worldVars>>

\* A faulty variant of SelectingConnection_Esc: the list stays open.
SelectingConnection_Esc_stay ==
  /\ Handling("db", "SelectingConnection", "Esc")
  /\ calls' = <<>>
  /\ UNCHANGED <<variant, running, appVars, connVars, worldVars>>

SelectingConnection_Esc ==
  /\ Handling("db", "SelectingConnection", "Esc")
  /\ calls' = <<>>
  /\ input_mode' = "Normal"
  /\ UNCHANGED <<variant, running, filename_input, scripts, sql_files,
                 list_state, query_result, query_row_count,
                 script_content_preview, result_scroll_x, result_scroll_y,
                 connVars, worldVars>>

\* App::switch_connection(name), for a name that is a key of the map.
\* connect_ok, init_ok, load_ok: the answers of Client::connect,
\* init_script_table and get_all_scripts.
switch_connection(name, connect_ok, init_ok, load_ok) ==
  LET url == connections[name]
      new_client == Host(url)
      r == refresh_scripts(get_all_scripts(db[new_client], load_ok),
                           scripts, list_state, script_content_preview)
      unchanged == [client |-> client, name |-> current_connection_name,
                    query_result |-> query_result,
                    query_row_count |-> query_row_count,
                    scripts |-> scripts, sel |-> list_state,
                    preview |-> script_content_preview]
  IN IF ~connect_ok
     THEN [ok |-> FALSE, err |-> "Failed to connect",
           calls |-> <<"Client::connect:Err">>] @@ unchanged
     ELSE IF ~init_ok
     THEN [ok |-> FALSE, err |-> "Connected, but failed to init table",
           calls |-> <<"Client::connect:Ok", "init_script_table:Err">>]
          @@ unchanged
     ELSE [ok |-> r.ok, err |-> "get_all_scripts failed",
           calls |-> <<"Client::connect:Ok", "init_script_table:Ok", "swap",
                       IF r.ok THEN "refresh_scripts:Ok"
                               ELSE "refresh_scripts:Err">>,
           client |-> new_client, name |-> name,
           query_result |-> Msg("Switched to database"),
           query_row_count |-> None,
           scripts |-> r.scripts, sel |-> r.sel, preview |-> r.preview]

SelectingConnection_Enter ==
  /\ Handling("db", "SelectingConnection", "Enter")
  /\ IF connection_list_state # None
        /\ connection_list_state[1] < NumConnections
     THEN \E name \in DOMAIN connections,
             connect_ok \in BOOLEAN, init_ok \in BOOLEAN, load_ok \in BOOLEAN :
            LET sw == switch_connection(name, connect_ok, init_ok, load_ok)
            IN /\ calls' = (<<"switch_connection">> \o sw.calls)
               /\ client' = sw.client
               /\ current_connection_name' = sw.name
               /\ scripts' = sw.scripts
               /\ list_state' = sw.sel
               /\ script_content_preview' = sw.preview
               /\ IF sw.ok
                  THEN /\ input_mode' = "Normal"
                       /\ query_result' = sw.query_result
                       /\ query_row_count' = sw.query_row_count
                       /\ UNCHANGED <<result_scroll_x, result_scroll_y>>
                  ELSE /\ SetQueryResult(Msg("Error"))
                       /\ UNCHANGED input_mode
     ELSE /\ calls' = <<>>
          /\ UNCHANGED <<client, current_connection_name, scripts, list_state,
                         script_content_preview, input_mode, query_result,
                         query_row_count, result_scroll_x, result_scroll_y>>
  /\ UNCHANGED <<variant, running, filename_input, sql_files, connections,
                 connection_list_state, new_connection_name_buffer,
                 saved_config, worldVars>>

SelectingConnection_other ==
  /\ Handling("db", "SelectingConnection", "other")
  /\ calls' = <<>>
  /\ UNCHANGED <<variant, running, appVars, connVars, worldVars>>

\* ------------------------------------------- InputMode::AddingConnectionName
\* A faulty variant of AddingConnectionName_Enter: an empty name is accepted.
AddingConnectionName_Enter_nocheck ==
  /\ Handling("db", "AddingConnectionName", "Enter")
  /\ calls' = <<>>
  /\ new_connection_name_buffer' = Trim(filename_input)
  /\ input_mode' = "AddingConnectionUrl"
  /\ filename_input' = <<>>
  /\ UNCHANGED <<query_result, query_row_count, result_scroll_x,
                 result_scroll_y>>
  /\ UNCHANGED <<variant, running, scripts, sql_files, list_state,
                 script_content_preview, client, current_connection_name,
                 connections, connection_list_state, saved_config, worldVars>>

AddingConnectionName_Enter ==
  /\ Handling("db", "AddingConnectionName", "Enter")
  /\ calls' = <<>>
  /\ LET name == Trim(filename_input)
     IN IF name = <<>>
        THEN /\ SetQueryResult(Msg("Name cannot be empty."))
             /\ UNCHANGED <<input_mode, filename_input,
                            new_connection_name_buffer>>
        ELSE IF name \in DOMAIN connections
        THEN /\ SetQueryResult(Msg("Connection name already exists."))
             /\ UNCHANGED <<input_mode, filename_input,
                            new_connection_name_buffer>>
        ELSE /\ new_connection_name_buffer' = name
             /\ input_mode' = "AddingConnectionUrl"
             /\ filename_input' = <<>>
             /\ UNCHANGED <<query_result, query_row_count, result_scroll_x,
                            result_scroll_y>>
  /\ UNCHANGED <<variant, running, scripts, sql_files, list_state,
                 script_content_preview, client, current_connection_name,
                 connections, connection_list_state, saved_config, worldVars>>

AddingConnectionName_Esc ==
  /\ Handling("db", "AddingConnectionName", "Esc")
  /\ calls' = <<>>
  /\ input_mode' = "SelectingConnection"
  /\ UNCHANGED <<variant, running, filename_input, scripts, sql_files,
                 list_state, query_result, query_row_count,
                 script_content_preview, result_scroll_x, result_scroll_y,
                 connVars, worldVars>>

AddingConnectionName_Backspace ==
  /\ Handling("db", "AddingConnectionName", "Backspace")
  /\ calls' = <<>>
  /\ filename_input' = Pop(filename_input)
  /\ UNCHANGED <<variant, running, input_mode, scripts, sql_files,
                 list_state, query_result, query_row_count,
                 script_content_preview, result_scroll_x, result_scroll_y,
                 connVars, worldVars>>

AddingConnectionName_Char ==
  /\ Handling("db", "AddingConnectionName", "Char")
  /\ Len(filename_input) < MaxLen
  /\ \E c \in Chars :
       /\ calls' = <<>>
       /\ filename_input' = Append(filename_input, c)
  /\ UNCHANGED <<variant, running, input_mode, scripts, sql_files,
                 list_state, query_result, query_row_count,
                 script_content_preview, result_scroll_x, result_scroll_y,
                 connVars, worldVars>>

AddingConnectionName_other ==
  /\ Handling("db", "AddingConnectionName", "other")
  /\ calls' = <<>>
  /\ UNCHANGED <<variant, running, appVars, connVars, worldVars>>

\* -------------------------------------------- InputMode::AddingConnectionUrl
\* A faulty variant of AddingConnectionUrl_Enter: the new entry replaces the
\* map.
AddingConnectionUrl_Enter_replace ==
  /\ Handling("db", "AddingConnectionUrl", "Enter")
  /\ Trim(filename_input) # <<>>
  /\ connections' =
       [n \in {new_connection_name_buffer} |-> Trim(filename_input)]
  /\ calls' = <<"insert", "save_config:Ok">>
  /\ saved_config' = connections'
  /\ SetQueryResult(Msg("Added new connection"))
  /\ input_mode' = "SelectingConnection"
  /\ UNCHANGED <<variant, running, filename_input, scripts, sql_files,
                 list_state, script_content_preview, client,
                 current_connection_name, connection_list_state,
                 new_connection_name_buffer, worldVars>>

AddingConnectionUrl_Enter ==
  /\ Handling("db", "AddingConnectionUrl", "Enter")
  /\ LET url == Trim(filename_input)
     IN IF url = <<>>
        THEN /\ calls' = <<>>
             /\ SetQueryResult(Msg("URL cannot be empty."))
             /\ UNCHANGED <<input_mode, connections, saved_config>>
        ELSE /\ NumConnections < MaxConns
             /\ connections' =
                  [n \in DOMAIN connections \cup {new_connection_name_buffer}
                     |-> IF n = new_connection_name_buffer THEN url
                         ELSE connections[n]]
             /\ \E saved \in BOOLEAN :
                  IF saved
                  THEN /\ calls' = <<"insert", "save_config:Ok">>
                       /\ saved_config' = connections'
                       /\ SetQueryResult(Msg("Added new connection"))
                  ELSE /\ calls' = <<"insert", "save_config:Err">>
                       /\ UNCHANGED saved_config
                       /\ SetQueryResult(
                            Msg("Connection added, but failed to save config"))
             /\ input_mode' = "SelectingConnection"
  /\ UNCHANGED <<variant, running, filename_input, scripts, sql_files,
                 list_state, script_content_preview, client,
                 current_connection_name, connection_list_state,
                 new_connection_name_buffer, worldVars>>

\* A faulty variant of AddingConnectionUrl_Esc: cancel leaves the whole flow.
AddingConnectionUrl_Esc_normal ==
  /\ Handling("db", "AddingConnectionUrl", "Esc")
  /\ calls' = <<>>
  /\ input_mode' = "Normal"
  /\ UNCHANGED <<variant, running, filename_input, scripts, sql_files,
                 list_state, query_result, query_row_count,
                 script_content_preview, result_scroll_x, result_scroll_y,
                 connVars, worldVars>>

AddingConnectionUrl_Esc ==
  /\ Handling("db", "AddingConnectionUrl", "Esc")
  /\ calls' = <<>>
  /\ input_mode' = "SelectingConnection"
  /\ UNCHANGED <<variant, running, filename_input, scripts, sql_files,
                 list_state, query_result, query_row_count,
                 script_content_preview, result_scroll_x, result_scroll_y,
                 connVars, worldVars>>

AddingConnectionUrl_Backspace ==
  /\ Handling("db", "AddingConnectionUrl", "Backspace")
  /\ calls' = <<>>
  /\ filename_input' = Pop(filename_input)
  /\ UNCHANGED <<variant, running, input_mode, scripts, sql_files,
                 list_state, query_result, query_row_count,
                 script_content_preview, result_scroll_x, result_scroll_y,
                 connVars, worldVars>>

AddingConnectionUrl_Char ==
  /\ Handling("db", "AddingConnectionUrl", "Char")
  /\ Len(filename_input) < MaxLen
  /\ \E c \in Chars :
       /\ calls' = <<>>
       /\ filename_input' = Append(filename_input, c)
  /\ UNCHANGED <<variant, running, input_mode, scripts, sql_files,
                 list_state, query_result, query_row_count,
                 script_content_preview, result_scroll_x, result_scroll_y,
                 connVars, worldVars>>

AddingConnectionUrl_other ==
  /\ Handling("db", "AddingConnectionUrl", "other")
  /\ calls' = <<>>
  /\ UNCHANGED <<variant, running, appVars, connVars, worldVars>>


\* ----------------------------------------------- InputMode::EditingFilename
\* Rows inserted so far, over all databases.
RECURSIVE SumCreated(_)
SumCreated(ds) ==
  IF ds = {} THEN 0
  ELSE LET d == CHOOSE x \in ds : TRUE
       IN (db[d].next - 1) + SumCreated(ds \ {d})

TotalCreated == SumCreated(Databases)

\* Option<usize> of the first script carrying the name.
PositionOfName(ss, name) == PositionFrom(NamesOf(ss), name, 1)

\* A faulty variant of SelectFound: the new entry is not selected.
SelectFound_keep(found, sel) == sel

\* The selection after `if let Some(idx) = position(..) { select(Some(idx)) }`.
SelectFound(found, sel) == IF found # None THEN found ELSE sel

EditingFilename_Enter ==
  /\ Handling("db", "EditingFilename", "Enter")
  /\ LET name == Trim(filename_input)
     IN IF name = <<>>
        THEN /\ calls' = <<>>
             /\ SetQueryResult(Msg("New script cancelled."))
             /\ UNCHANGED <<scripts, list_state, script_content_preview, db>>
        ELSE \E up \in BOOLEAN, up2 \in BOOLEAN :
               LET c == create_script(db[client], name, up)
                   r == refresh_scripts(get_all_scripts(c.table, up2),
                          scripts, list_state, script_content_preview)
                   sel == SelectFound(PositionOfName(r.scripts, name), r.sel)
               IN IF c.ok
                  THEN /\ TotalCreated < MaxCreated
                       /\ calls' = (<<"create_script:Ok",
                              IF r.ok THEN "refresh_scripts:Ok"
                                      ELSE "refresh_scripts:Err">>)
                       /\ SetQueryResult(Msg("Script created."))
                       /\ db' = [db EXCEPT ![client] = c.table]
                       /\ scripts' = r.scripts
                       /\ list_state' = sel
                       /\ script_content_preview' =
                            IF PositionOfName(r.scripts, name) # None
                            THEN update_preview(r.scripts, sel)
                            ELSE r.preview
                  ELSE /\ calls' = <<"create_script:Err">>
                       /\ SetQueryResult(Msg("Error creating script"))
                       /\ UNCHANGED <<scripts, list_state,
                                      script_content_preview, db>>
  /\ input_mode' = "Normal"
  /\ UNCHANGED <<variant, running, filename_input, sql_files, connVars, files>>

EditingFilename_Esc ==
  /\ Handling("db", "EditingFilename", "Esc")
  /\ calls' = <<>>
  /\ input_mode' = "Normal"
  /\ SetQueryResult(Msg("New script cancelled."))
  /\ UNCHANGED <<variant, running, filename_input, scripts, sql_files,
                 list_state, script_content_preview, connVars, worldVars>>

EditingFilename_Backspace ==
  /\ Handling("db", "EditingFilename", "Backspace")
  /\ calls' = <<>>
  /\ filename_input' = Pop(filename_input)
  /\ UNCHANGED <<variant, running, input_mode, scripts, sql_files,
                 list_state, query_result, query_row_count,
                 script_content_preview, result_scroll_x, result_scroll_y,
                 connVars, worldVars>>

EditingFilename_Char ==
  /\ Handling("db", "EditingFilename", "Char")
  /\ Len(filename_input) < MaxLen
  /\ \E c \in Chars :
       /\ calls' = <<>>
       /\ filename_input' = Append(filename_input, c)
  /\ UNCHANGED <<variant, running, input_mode, scripts, sql_files,
                 list_state, query_result, query_row_count,
                 script_content_preview, result_scroll_x, result_scroll_y,
                 connVars, worldVars>>

EditingFilename_other ==
  /\ Handling("db", "EditingFilename", "other")
  /\ calls' = <<>>
  /\ UNCHANGED <<variant, running, appVars, connVars, worldVars>>

\* ---------------------------------------------- InputMode::ConfirmingDelete
\* A faulty variant of ConfirmingDelete_y: the list is not reloaded after the delete.
ConfirmingDelete_y_norefresh ==
  /\ Handling("db", "ConfirmingDelete", "y")
  /\ LET sel == get_selected_script(scripts, list_state)
     IN IF sel = None
        THEN /\ calls' = <<>>
             /\ UNCHANGED <<query_result, query_row_count, result_scroll_x,
                            result_scroll_y, db>>
        ELSE \E up \in BOOLEAN :
               LET d == delete_script(db[client], sel[1].id, up)
               IN IF d.ok
                  THEN /\ calls' = <<"delete_script:Ok">>
                       /\ SetQueryResult(Msg("Script deleted."))
                       /\ db' = [db EXCEPT ![client] = d.table]
                  ELSE /\ calls' = <<"delete_script:Err">>
                       /\ SetQueryResult(Msg("Error deleting script"))
                       /\ UNCHANGED db
  /\ input_mode' = "Normal"
  /\ UNCHANGED <<variant, running, filename_input, scripts, list_state,
                 script_content_preview, sql_files, connVars, files>>

ConfirmingDelete_y ==
  /\ Handling("db", "ConfirmingDelete", "y")
  /\ LET sel == get_selected_script(scripts, list_state)
     IN IF sel = None
        THEN /\ calls' = <<>>
             /\ UNCHANGED <<scripts, list_state, query_result,
                            query_row_count, script_content_preview,
                            result_scroll_x, result_scroll_y, db>>
        ELSE \E up \in BOOLEAN, up2 \in BOOLEAN :
               LET d == delete_script(db[client], sel[1].id, up)
                   r == refresh_scripts(get_all_scripts(d.table, up2),
                          scripts, list_state, script_content_preview)
               IN IF d.ok
                  THEN /\ calls' = (<<"delete_script:Ok",
                              IF r.ok THEN "refresh_scripts:Ok"
                                      ELSE "refresh_scripts:Err">>)
                       /\ SetQueryResult(Msg("Script deleted."))
                       /\ db' = [db EXCEPT ![client] = d.table]
                       /\ scripts' = r.scripts
                       /\ list_state' = r.sel
                       /\ script_content_preview' = r.preview
                  ELSE /\ calls' = <<"delete_script:Err">>
                       /\ SetQueryResult(Msg("Error deleting script"))
                       /\ UNCHANGED <<scripts, list_state,
                                      script_content_preview, db>>
  /\ input_mode' = "Normal"
  /\ UNCHANGED <<variant, running, filename_input, sql_files, connVars, files>>

ConfirmingDelete_n ==
  /\ Handling("db", "ConfirmingDelete", "n")
  /\ calls' = <<>>
  /\ input_mode' = "Normal"
  /\ SetQueryResult(Msg("Deletion cancelled."))
  /\ UNCHANGED <<variant, running, filename_input, scripts, sql_files,
                 list_state, script_content_preview, connVars, worldVars>>

ConfirmingDelete_other ==
  /\ Handling("db", "ConfirmingDelete", "other")
  /\ calls' = <<>>
  /\ UNCHANGED <<variant, running, appVars, connVars, worldVars>>

\* ------------------------------------------------ InputMode::RenamingScript
RenamingScript_Enter ==
  /\ Handling("db", "RenamingScript", "Enter")
  /\ LET new_name == Trim(filename_input)
         sel == get_selected_script(scripts, list_state)
     IN IF new_name = <<>>
        THEN /\ calls' = <<>>
             /\ SetQueryResult(Msg("Rename cancelled."))
             /\ UNCHANGED <<scripts, list_state, script_content_preview, db>>
        ELSE IF sel = None
        THEN /\ calls' = <<>>
             /\ UNCHANGED <<scripts, list_state, query_result,
                            query_row_count, script_content_preview,
                            result_scroll_x, result_scroll_y, db>>
        ELSE \E up \in BOOLEAN, up2 \in BOOLEAN :
               LET n == rename_script(db[client], sel[1].id, new_name, up)
                   r == refresh_scripts(get_all_scripts(n.table, up2),
                          scripts, list_state, script_content_preview)
                   found == PositionOfName(r.scripts, new_name)
                   sel2 == SelectFound(found, r.sel)
               IN IF n.ok
                  THEN /\ calls' = (<<"rename_script:Ok",
                              IF r.ok THEN "refresh_scripts:Ok"
                                      ELSE "refresh_scripts:Err">>)
                       /\ SetQueryResult(Msg("Script renamed."))
                       /\ db' = [db EXCEPT ![client] = n.table]
                       /\ scripts' = r.scripts
                       /\ list_state' = sel2
                       /\ script_content_preview' =
                            IF found # None
                            THEN update_preview(r.scripts, sel2)
                            ELSE r.preview
                  ELSE /\ calls' = <<"rename_script:Err">>
                       /\ SetQueryResult(Msg("Error renaming"))
                       /\ UNCHANGED <<scripts, list_state,
                                      script_content_preview, db>>
  /\ input_mode' = "Normal"
  /\ UNCHANGED <<variant, running, filename_input, sql_files, connVars, files>>

RenamingScript_Esc ==
  /\ Handling("db", "RenamingScript", "Esc")
  /\ calls' = <<>>
  /\ input_mode' = "Normal"
  /\ SetQueryResult(Msg("Rename cancelled."))
  /\ UNCHANGED <<variant, running, filename_input, scripts, sql_files,
                 list_state, script_content_preview, connVars, worldVars>>

RenamingScript_Backspace ==
  /\ Handling("db", "RenamingScript", "Backspace")
  /\ calls' = <<>>
  /\ filename_input' = Pop(filename_input)
  /\ UNCHANGED <<variant, running, input_mode, scripts, sql_files,
                 list_state, query_result, query_row_count,
                 script_content_preview, result_scroll_x, result_scroll_y,
                 connVars, worldVars>>

RenamingScript_Char ==
  /\ Handling("db", "RenamingScript", "Char")
  /\ Len(filename_input) < MaxLen
  /\ \E c \in Chars :
       /\ calls' = <<>>
       /\ filename_input' = Append(filename_input, c)
  /\ UNCHANGED <<variant, running, input_mode, scripts, sql_files,
                 list_state, query_result, query_row_count,
                 script_content_preview, result_scroll_x, result_scroll_y,
                 connVars, worldVars>>

RenamingScript_other ==
  /\ Handling("db", "RenamingScript", "other")
  /\ calls' = <<>>
  /\ UNCHANGED <<variant, running, appVars, connVars, worldVars>>

\* ------------------------------------------------------ InputMode::ShowHelp
\* A faulty variant of ShowHelp_close: the keys that close the help quit.
ShowHelp_close_quit ==
  /\ Handling("db", "ShowHelp", "Esc")
  /\ calls' = <<>>
  /\ running' = "quit"
  /\ UNCHANGED <<variant, appVars, connVars, worldVars>>

ShowHelp_close ==
  /\ Handling("db", "ShowHelp", "Esc")
  /\ calls' = <<>>
  /\ input_mode' = "Normal"
  /\ UNCHANGED <<variant, running, filename_input, scripts, sql_files,
                 list_state, query_result, query_row_count,
                 script_content_preview, result_scroll_x, result_scroll_y,
                 connVars, worldVars>>

ShowHelp_other ==
  /\ Handling("db", "ShowHelp", "other")
  /\ calls' = <<>>
  /\ UNCHANGED <<variant, running, appVars, connVars, worldVars>>


\* =================================================== variant fs: main.rs
\* A faulty variant of NewScriptText: the file is created empty.
NewScriptText_empty == ""

NewScriptText == "-- New SQL Script\n"

\* A faulty variant of PathOf: the extension is left out.
PathOf_bare(stem) == stem

\* format!("{}.sql", stem) under the script directory.
PathOf(stem) == stem \o DotSql

\* A faulty variant of FileStem: the stem is lost.
FileStem_none(path) == <<>>

\* Path::file_stem
FileStem(path) == SubSeq(path, 1, Len(path) - Len(DotSql))

RECURSIVE SortPaths(_)
SortPaths(paths) ==
  IF paths = {} THEN <<>>
  ELSE LET m == CHOOSE x \in paths : \A y \in paths \ {x} : ~StrLess(y, x)
       IN <<m>> \o SortPaths(paths \ {m})

\* A faulty variant of PathExists: the check is left out.
PathExists_never(disk, path) == FALSE

\* Path::exists
PathExists(disk, path) == path \in DOMAIN disk

\* fs::read_to_string(path).unwrap_or_else(..)
ReadOrError(disk, path) ==
  IF path \in DOMAIN disk THEN disk[path] ELSE "Error reading file"

Fs_update_preview(disk, paths, sel, preview) ==
  IF sel # None
  THEN IF sel[1] < Len(paths) THEN ReadOrError(disk, paths[sel[1] + 1])
       ELSE preview
  ELSE "No SQL files found."

\* rescan_scripts: read_ok is the answer of fs::read_dir.
rescan_scripts(disk, read_ok, paths, sel, preview) ==
  IF ~read_ok
  THEN [ok |-> FALSE, sql_files |-> paths, sel |-> sel, preview |-> preview]
  ELSE LET found == SortPaths(DOMAIN disk)
           sel2 == RefreshSelection(found, sel)
       IN [ok |-> TRUE, sql_files |-> found, sel |-> sel2,
           preview |-> Fs_update_preview(disk, found, sel2, preview)]

get_selected_filename_stem(paths, sel) ==
  IF sel # None /\ sel[1] < Len(paths)
  THEN Some(FileStem(paths[sel[1] + 1])) ELSE None

SelectedPath(paths, sel) ==
  IF sel # None /\ sel[1] < Len(paths) THEN Some(paths[sel[1] + 1]) ELSE None

FsEnterNamePrompt ==
  Msg("Enter new script name (no extension). Press [Enter] to confirm, [Esc] to cancel.")

FsExecOutcomes ==
  { Msg("Error opening database"), Msg("<table>"),
    Msg("Error executing query"),
    Msg("Command executed successfully. rows affected."),
    Msg("Error executing command") }

\* What the editor may leave in the file it was given.
EditorOutputs(old) == Contents \cup {old}

fsFrame == <<scripts, query_row_count, result_scroll_x, result_scroll_y,
             connVars, db>>

Fs_Normal_q ==
  /\ Handling("fs", "Normal", "q")
  /\ running' = "quit"
  /\ calls' = <<>>
  /\ UNCHANGED <<variant, appVars, connVars, worldVars>>

Fs_Normal_j ==
  /\ Handling("fs", "Normal", "j")
  /\ calls' = <<>>
  /\ IF sql_files = <<>>
     THEN UNCHANGED <<list_state, script_content_preview>>
     ELSE /\ list_state' = Some(NextIndex(Len(sql_files), list_state))
          /\ script_content_preview' =
               Fs_update_preview(files, sql_files, list_state',
                                 script_content_preview)
  /\ UNCHANGED <<variant, running, input_mode, filename_input, sql_files,
                 query_result, files, fsFrame>>

Fs_Normal_k ==
  /\ Handling("fs", "Normal", "k")
  /\ calls' = <<>>
  /\ IF sql_files = <<>>
     THEN UNCHANGED <<list_state, script_content_preview>>
     ELSE /\ list_state' = Some(PreviousIndex(Len(sql_files), list_state))
          /\ script_content_preview' =
               Fs_update_preview(files, sql_files, list_state',
                                 script_content_preview)
  /\ UNCHANGED <<variant, running, input_mode, filename_input, sql_files,
                 query_result, files, fsFrame>>

\* 'l' | Enter: execute_sql(app, db_path)
\* `app.sql_files[selected_index]` panics on an index out of bounds.
Fs_Normal_run ==
  /\ Handling("fs", "Normal", "Enter")
  /\ IF list_state = None
     THEN /\ calls' = <<>>
          /\ UNCHANGED <<running, query_result>>
     ELSE IF list_state[1] >= Len(sql_files)
     THEN /\ calls' = <<"panic">>
          /\ running' = "failed"
          /\ UNCHANGED query_result
     ELSE /\ calls' = <<"execute_sql">>
          /\ UNCHANGED running
          /\ IF sql_files[list_state[1] + 1] \in DOMAIN files
             THEN \E m \in FsExecOutcomes : query_result' = m
             ELSE query_result' = Msg("Error reading file")
  /\ UNCHANGED <<variant, input_mode, filename_input, sql_files,
                 list_state, script_content_preview, files, fsFrame>>

\* A faulty variant of Fs_Normal_e: a failing editor is reported and the
\* directory is not rescanned.
Fs_Normal_e_norescan ==
  /\ Handling("fs", "Normal", "e")
  /\ SelectedPath(sql_files, list_state) # None
  /\ calls' = <<"open_editor:false">>
  /\ query_result' = Msg("Editor exited with an error.")
  /\ UNCHANGED <<variant, running, input_mode, filename_input, sql_files,
                 list_state, script_content_preview, files, fsFrame>>

\* 'e': the editor runs on the script file itself, then the directory is
\* rescanned whatever the editor's exit status.
Fs_Normal_e ==
  /\ Handling("fs", "Normal", "e")
  /\ LET p == SelectedPath(sql_files, list_state)
     IN IF p = None
        THEN /\ calls' = <<>>
             /\ UNCHANGED <<running, sql_files, list_state, query_result,
                            script_content_preview, files>>
        ELSE \/ /\ calls' = <<"open_editor:Err">>
                /\ running' = "failed"
                /\ UNCHANGED <<sql_files, list_state, query_result,
                               script_content_preview, files>>
             \/ \E success \in BOOLEAN, read_ok \in BOOLEAN,
                   text \in EditorOutputs(ReadOrError(files, p[1])) :
                  LET disk == IF p[1] \in DOMAIN files
                              THEN [files EXCEPT ![p[1]] = text] ELSE files
                      r == rescan_scripts(disk, read_ok, sql_files,
                             list_state, script_content_preview)
                  IN /\ calls' = (<<IF success THEN "open_editor:true"
                                         ELSE "open_editor:false",
                              IF r.ok THEN "rescan_scripts:Ok"
                                      ELSE "rescan_scripts:Err">>)
                     /\ files' = disk
                     /\ query_result' =
                          IF success THEN query_result
                          ELSE Msg("Editor exited with an error.")
                     /\ running' = IF r.ok THEN running ELSE "failed"
                     /\ sql_files' = r.sql_files
                     /\ list_state' = r.sel
                     /\ script_content_preview' = r.preview
  /\ UNCHANGED <<variant, input_mode, filename_input, fsFrame>>

Fs_Normal_a ==
  /\ Handling("fs", "Normal", "a")
  /\ calls' = <<>>
  /\ input_mode' = "EditingFilename"
  /\ filename_input' = <<>>
  /\ query_result' = FsEnterNamePrompt
  /\ UNCHANGED <<variant, running, sql_files, list_state,
                 script_content_preview, files, fsFrame>>

Fs_Normal_d ==
  /\ Handling("fs", "Normal", "d")
  /\ calls' = <<>>
  /\ IF list_state # None
     THEN /\ input_mode' = "ConfirmingDelete"
          /\ query_result' =
               LET stem == get_selected_filename_stem(sql_files, list_state)
               IN MsgOf("Delete? (y/n)", IF stem = None THEN <<>> ELSE stem[1])
     ELSE /\ query_result' = Msg("No script selected to delete.")
          /\ UNCHANGED input_mode
  /\ UNCHANGED <<variant, running, filename_input, sql_files, list_state,
                 script_content_preview, files, fsFrame>>

Fs_Normal_r ==
  /\ Handling("fs", "Normal", "r")
  /\ calls' = <<>>
  /\ LET stem == get_selected_filename_stem(sql_files, list_state)
     IN IF stem # None
        THEN /\ input_mode' = "RenamingScript"
             /\ filename_input' = stem[1]
             /\ query_result' = FsEnterNamePrompt
        ELSE /\ query_result' = Msg("No script selected to rename.")
             /\ UNCHANGED <<input_mode, filename_input>>
  /\ UNCHANGED <<variant, running, sql_files, list_state,
                 script_content_preview, files, fsFrame>>

Fs_Normal_other ==
  /\ Handling("fs", "Normal", "other")
  /\ calls' = <<>>
  /\ UNCHANGED <<variant, running, appVars, connVars, worldVars>>


\* ------------------------------------------------ fs: EditingFilename
Fs_EditingFilename_Enter ==
  /\ Handling("fs", "EditingFilename", "Enter")
  /\ LET filename_stem == Trim(filename_input)
         new_file_path == PathOf(filename_stem)
     IN IF filename_stem = <<>>
        THEN /\ calls' = <<>>
             /\ input_mode' = "Normal"
             /\ query_result' = Msg("New script cancelled.")
             /\ UNCHANGED <<running, sql_files, list_state,
                            script_content_preview, files>>
        ELSE IF PathExists(files, new_file_path)
        THEN /\ calls' = <<"exists">>
             /\ input_mode' = "Normal"
             /\ query_result' = Msg("Error: File already exists.")
             /\ UNCHANGED <<running, sql_files, list_state,
                            script_content_preview, files>>
        ELSE \/ \* fs::write(..)? fails
                /\ calls' = <<"fs::write:Err">>
                /\ running' = "failed"
                /\ UNCHANGED <<input_mode, query_result, sql_files, list_state,
                               script_content_preview, files>>
             \/ \* open_editor(..)? fails, the file has been written
                /\ calls' = <<"fs::write:Ok", "open_editor:Err">>
                /\ running' = "failed"
                /\ files' = [p \in DOMAIN files \cup {new_file_path} |->
                               IF p = new_file_path THEN NewScriptText
                               ELSE files[p]]
                /\ UNCHANGED <<input_mode, query_result, sql_files, list_state,
                               script_content_preview>>
             \/ \E success \in BOOLEAN, read_ok \in BOOLEAN,
                   text \in EditorOutputs(NewScriptText) :
                  LET disk == [p \in DOMAIN files \cup {new_file_path} |->
                                 IF p = new_file_path THEN text ELSE files[p]]
                      r == rescan_scripts(disk, read_ok, sql_files,
                             list_state, script_content_preview)
                      found == PositionFrom(r.sql_files, new_file_path, 1)
                      sel == SelectFound(found, r.sel)
                  IN /\ calls' = (<<"fs::write:Ok",
                              IF success THEN "open_editor:true"
                                         ELSE "open_editor:false",
                              IF r.ok THEN "rescan_scripts:Ok"
                                      ELSE "rescan_scripts:Err">>)
                     /\ files' = disk
                     /\ query_result' =
                          IF success
                          THEN Msg("Script created successfully.")
                          ELSE Msg("Editor exited with an error.")
                     /\ sql_files' = r.sql_files
                     /\ IF r.ok
                        THEN /\ list_state' = sel
                             /\ script_content_preview' =
                                  IF found # None
                                  THEN Fs_update_preview(disk, r.sql_files,
                                                         sel, r.preview)
                                  ELSE r.preview
                             /\ input_mode' = "Normal"
                             /\ UNCHANGED running
                        ELSE /\ running' = "failed"
                             /\ UNCHANGED <<list_state, script_content_preview,
                                            input_mode>>
  /\ UNCHANGED <<variant, filename_input, fsFrame>>

Fs_EditingFilename_Esc ==
  /\ Handling("fs", "EditingFilename", "Esc")
  /\ calls' = <<>>
  /\ input_mode' = "Normal"
  /\ query_result' = Msg("New script cancelled.")
  /\ UNCHANGED <<variant, running, filename_input, sql_files, list_state,
                 script_content_preview, files, fsFrame>>

Fs_EditingFilename_Backspace ==
  /\ Handling("fs", "EditingFilename", "Backspace")
  /\ calls' = <<>>
  /\ filename_input' = Pop(filename_input)
  /\ UNCHANGED <<variant, running, input_mode, sql_files, list_state,
                 query_result, script_content_preview, files, fsFrame>>

Fs_EditingFilename_Char ==
  /\ Handling("fs", "EditingFilename", "Char")
  /\ Len(filename_input) < MaxLen
  /\ \E c \in Chars :
       /\ calls' = <<>>
       /\ filename_input' = Append(filename_input, c)
  /\ UNCHANGED <<variant, running, input_mode, sql_files, list_state,
                 query_result, script_content_preview, files, fsFrame>>

Fs_EditingFilename_other ==
  /\ Handling("fs", "EditingFilename", "other")
  /\ calls' = <<>>
  /\ UNCHANGED <<variant, running, appVars, connVars, worldVars>>

\* ----------------------------------------------- fs: ConfirmingDelete
Fs_ConfirmingDelete_y ==
  /\ Handling("fs", "ConfirmingDelete", "y")
  /\ LET p == SelectedPath(sql_files, list_state)
     IN IF p = None
        THEN /\ calls' = <<>>
             /\ input_mode' = "Normal"
             /\ UNCHANGED <<running, sql_files, list_state, query_result,
                            script_content_preview, files>>
        ELSE \E removed \in BOOLEAN, read_ok \in BOOLEAN :
               LET disk == [q \in DOMAIN files \ {p[1]} |-> files[q]]
                   r == rescan_scripts(disk, read_ok, sql_files, list_state,
                                       script_content_preview)
               IN IF removed /\ p[1] \in DOMAIN files
                  THEN /\ calls' = (<<"remove_file:Ok",
                              IF r.ok THEN "rescan_scripts:Ok"
                                      ELSE "rescan_scripts:Err">>)
                       /\ query_result' = Msg("File deleted.")
                       /\ files' = disk
                       /\ sql_files' = r.sql_files
                       /\ list_state' = r.sel
                       /\ script_content_preview' = r.preview
                       /\ running' = IF r.ok THEN running ELSE "failed"
                       /\ input_mode' = IF r.ok THEN "Normal" ELSE input_mode
                  ELSE /\ calls' = <<"remove_file:Err">>
                       /\ query_result' = Msg("Error deleting file")
                       /\ input_mode' = "Normal"
                       /\ UNCHANGED <<running, sql_files, list_state,
                                      script_content_preview, files>>
  /\ UNCHANGED <<variant, filename_input, fsFrame>>

Fs_ConfirmingDelete_n ==
  /\ Handling("fs", "ConfirmingDelete", "n")
  /\ calls' = <<>>
  /\ input_mode' = "Normal"
  /\ query_result' = Msg("Deletion cancelled.")
  /\ UNCHANGED <<variant, running, filename_input, sql_files, list_state,
                 script_content_preview, files, fsFrame>>

Fs_ConfirmingDelete_other ==
  /\ Handling("fs", "ConfirmingDelete", "other")
  /\ calls' = <<>>
  /\ UNCHANGED <<variant, running, appVars, connVars, worldVars>>

\* ------------------------------------------------- fs: RenamingScript
Fs_RenamingScript_Enter ==
  /\ Handling("fs", "RenamingScript", "Enter")
  /\ LET new_filename_stem == Trim(filename_input)
         old == SelectedPath(sql_files, list_state)
         new_path == PathOf(new_filename_stem)
     IN IF new_filename_stem = <<>>
        THEN /\ calls' = <<>>
             /\ input_mode' = "Normal"
             /\ query_result' = Msg("Rename cancelled.")
             /\ UNCHANGED <<running, sql_files, list_state,
                            script_content_preview, files>>
        ELSE IF old = None
        THEN /\ calls' = <<>>
             /\ input_mode' = "Normal"
             /\ UNCHANGED <<running, sql_files, list_state, query_result,
                            script_content_preview, files>>
        ELSE IF PathExists(files, new_path)
        THEN /\ calls' = <<"exists">>
             /\ input_mode' = "Normal"
             /\ query_result' = Msg("Error: File already exists.")
             /\ UNCHANGED <<running, sql_files, list_state,
                            script_content_preview, files>>
        ELSE \E renamed \in BOOLEAN, read_ok \in BOOLEAN :
               LET disk == [q \in (DOMAIN files \ {old[1]}) \cup {new_path} |->
                              IF q = new_path THEN files[old[1]] ELSE files[q]]
                   r == rescan_scripts(disk, read_ok, sql_files, list_state,
                                       script_content_preview)
                   found == PositionFrom(r.sql_files, new_path, 1)
                   sel == SelectFound(found, r.sel)
               IN IF renamed /\ old[1] \in DOMAIN files
                  THEN /\ calls' = (<<"fs::rename:Ok",
                              IF r.ok THEN "rescan_scripts:Ok"
                                      ELSE "rescan_scripts:Err">>)
                       /\ query_result' = Msg("File renamed.")
                       /\ files' = disk
                       /\ sql_files' = r.sql_files
                       /\ IF r.ok
                          THEN /\ list_state' = sel
                               /\ script_content_preview' =
                                    IF found # None
                                    THEN Fs_update_preview(disk, r.sql_files,
                                                           sel, r.preview)
                                    ELSE r.preview
                               /\ input_mode' = "Normal"
                               /\ UNCHANGED running
                          ELSE /\ running' = "failed"
                               /\ UNCHANGED <<list_state,
                                              script_content_preview, input_mode>>
                  ELSE /\ calls' = <<"fs::rename:Err">>
                       /\ query_result' = Msg("Error renaming file")
                       /\ input_mode' = "Normal"
                       /\ UNCHANGED <<running, sql_files, list_state,
                                      script_content_preview, files>>
  /\ UNCHANGED <<variant, filename_input, fsFrame>>

Fs_RenamingScript_Esc ==
  /\ Handling("fs", "RenamingScript", "Esc")
  /\ calls' = <<>>
  /\ input_mode' = "Normal"
  /\ query_result' = Msg("Rename cancelled.")
  /\ UNCHANGED <<variant, running, filename_input, sql_files, list_state,
                 script_content_preview, files, fsFrame>>

Fs_RenamingScript_Backspace ==
  /\ Handling("fs", "RenamingScript", "Backspace")
  /\ calls' = <<>>
  /\ filename_input' = Pop(filename_input)
  /\ UNCHANGED <<variant, running, input_mode, sql_files, list_state,
                 query_result, script_content_preview, files, fsFrame>>

Fs_RenamingScript_Char ==
  /\ Handling("fs", "RenamingScript", "Char")
  /\ Len(filename_input) < MaxLen
  /\ \E c \in Chars :
       /\ calls' = <<>>
       /\ filename_input' = Append(filename_input, c)
  /\ UNCHANGED <<variant, running, input_mode, sql_files, list_state,
                 query_result, script_content_preview, files, fsFrame>>

Fs_RenamingScript_other ==
  /\ Handling("fs", "RenamingScript", "other")
  /\ calls' = <<>>
  /\ UNCHANGED <<variant, running, appVars, connVars, worldVars>>


\* ========================================================== specification
EmptyTable == [rows |-> {}, next |-> 1]
EmptyMap == [n \in {} |-> <<>>]

\* App::new (app.rs) for variant db: the first configured connection is
\* connected and bootstrapped and the scripts are loaded.
InitDb ==
  /\ variant = "db"
  /\ connections = [n \in {InitName} |-> InitUrl]
  /\ saved_config = connections
  /\ connection_list_state = None
  /\ current_connection_name = InitName
  /\ new_connection_name_buffer = <<>>
  /\ client = Host(InitUrl)
  /\ db = [d \in Databases |-> EmptyTable]
  /\ files = EmptyMap
  /\ scripts = <<>>
  /\ sql_files = <<>>
  /\ list_state = None
  /\ query_result = Msg("Welcome! Press '?' for help.")
  /\ query_row_count = None
  /\ script_content_preview = "No scripts found."
  /\ input_mode = "Normal"
  /\ filename_input = <<>>
  /\ result_scroll_x = 0
  /\ result_scroll_y = 0

\* App::new (main.rs) for variant fs: the script directory is scanned.
InitFs ==
  /\ variant = "fs"
  /\ connections = EmptyMap
  /\ saved_config = EmptyMap
  /\ connection_list_state = None
  /\ current_connection_name = <<>>
  /\ new_connection_name_buffer = <<>>
  /\ client = "none"
  /\ db = [d \in Databases |-> EmptyTable]
  /\ files = EmptyMap
  /\ scripts = <<>>
  /\ sql_files = <<>>
  /\ list_state = None
  /\ query_result = Msg("Welcome!")
  /\ query_row_count = None
  /\ script_content_preview = "No SQL files found."
  /\ input_mode = "Normal"
  /\ filename_input = <<>>
  /\ result_scroll_x = 0
  /\ result_scroll_y = 0

\* No execute_sql call of db.rs is under way.
ExecIdle ==
  /\ sql_content = <<>>
  /\ relevant_sql = <<>>
  /\ exec_pc = "idle"
  /\ sent = None
  /\ reply = [ok |-> FALSE, columns |-> <<>>, rows |-> <<>>,
              error |-> [db |-> FALSE, code |-> <<>>, message |-> <<>>,
                         detail |-> None, hint |-> None, position |-> None,
                         display |-> <<>>]]
  /\ column_names = <<>>
  /\ widths = <<>>
  /\ rows_data = <<>>

Init ==
  /\ ExecIdle
  /\ running = "running"
  /\ calls = <<>>
  /\ keys = 0
  /\ last = [mode |-> "Normal", key |-> "none"]
  /\ (InitDb \/ InitFs)

Next ==
  \/ Normal_q
  \/ Normal_j
  \/ Normal_k
  \/ Normal_D
  \/ Normal_Enter
  \/ Normal_h
  \/ Normal_l
  \/ Normal_Down
  \/ Normal_Up
  \/ Normal_c
  \/ Normal_e
  \/ Normal_a
  \/ Normal_d
  \/ Normal_r
  \/ Normal_help
  \/ Normal_other
  \/ SelectingConnection_j
  \/ SelectingConnection_k
  \/ SelectingConnection_a
  \/ SelectingConnection_Esc
  \/ SelectingConnection_Enter
  \/ SelectingConnection_other
  \/ AddingConnectionName_Enter
  \/ AddingConnectionName_Esc
  \/ AddingConnectionName_Backspace
  \/ AddingConnectionName_Char
  \/ AddingConnectionName_other
  \/ AddingConnectionUrl_Enter
  \/ AddingConnectionUrl_Esc
  \/ AddingConnectionUrl_Backspace
  \/ AddingConnectionUrl_Char
  \/ AddingConnectionUrl_other
  \/ EditingFilename_Enter
  \/ EditingFilename_Esc
  \/ EditingFilename_Backspace
  \/ EditingFilename_Char
  \/ EditingFilename_other
  \/ ConfirmingDelete_y
  \/ ConfirmingDelete_n
  \/ ConfirmingDelete_other
  \/ RenamingScript_Enter
  \/ RenamingScript_Esc
  \/ RenamingScript_Backspace
  \/ RenamingScript_Char
  \/ RenamingScript_other
  \/ ShowHelp_close
  \/ ShowHelp_other
  \/ Fs_Normal_q
  \/ Fs_Normal_j
  \/ Fs_Normal_k
  \/ Fs_Normal_run
  \/ Fs_Normal_e
  \/ Fs_Normal_a
  \/ Fs_Normal_d
  \/ Fs_Normal_r
  \/ Fs_Normal_other
  \/ Fs_EditingFilename_Enter
  \/ Fs_EditingFilename_Esc
  \/ Fs_EditingFilename_Backspace
  \/ Fs_EditingFilename_Char
  \/ Fs_EditingFilename_other
  \/ Fs_ConfirmingDelete_y
  \/ Fs_ConfirmingDelete_n
  \/ Fs_ConfirmingDelete_other
  \/ Fs_RenamingScript_Enter
  \/ Fs_RenamingScript_Esc
  \/ Fs_RenamingScript_Backspace
  \/ Fs_RenamingScript_Char
  \/ Fs_RenamingScript_other

Spec == Init /\ [][Next]_vars

\* ------------------------------------------------------------ construction
\* The configuration App::new may be given: no connection, or the default
\* one.
StartConfigs == {EmptyMap, [n \in {InitName} |-> InitUrl]}

\* Before App::new: nothing is constructed yet.
InitStartup ==
  /\ ExecIdle
  /\ running = "starting"
  /\ variant \in {"db", "fs"}
  /\ connections \in (IF variant = "db" THEN StartConfigs ELSE {EmptyMap})
  /\ saved_config = connections
  /\ connection_list_state = None
  /\ current_connection_name = <<>>
  /\ new_connection_name_buffer = <<>>
  /\ client = "none"
  /\ db = [d \in Databases |-> EmptyTable]
  /\ files = EmptyMap
  /\ scripts = <<>>
  /\ sql_files = <<>>
  /\ list_state = None
  /\ query_result = Msg("")
  /\ query_row_count = None
  /\ script_content_preview = ""
  /\ input_mode = "Normal"
  /\ filename_input = <<>>
  /\ result_scroll_x = 0
  /\ result_scroll_y = 0
  /\ calls = <<>>
  /\ keys = 0
  /\ last = [mode |-> "Normal", key |-> "none"]

\* What a construction that returns Err leaves: no App, no session.
Aborted ==
  /\ running' = "aborted"
  /\ UNCHANGED <<appVars, client, current_connection_name>>

\* A faulty variant of App_new: a failed load of the scripts is ignored.
App_new_noload ==
  /\ variant = "db"
  /\ running = "starting"
  /\ IF DOMAIN connections = {}
     THEN /\ calls' = <<"connections.iter().next():None">>
          /\ Aborted
     ELSE \E name \in DOMAIN connections,
             connect_ok \in BOOLEAN, init_ok \in BOOLEAN, load_ok \in BOOLEAN :
            IF ~connect_ok
            THEN /\ calls' = <<"Client::connect:Err">>
                 /\ Aborted
            ELSE IF ~init_ok
            THEN /\ calls' = <<"Client::connect:Ok", "init_script_table:Err">>
                 /\ Aborted
            ELSE LET r == refresh_scripts(
                            get_all_scripts(db[Host(connections[name])],
                                            load_ok), <<>>, None, "")
                 IN /\ calls' = <<"Client::connect:Ok", "init_script_table:Ok",
                                  IF r.ok THEN "refresh_scripts:Ok"
                                          ELSE "refresh_scripts:Err">>
                    /\ running' = "running"
                    /\ client' = Host(connections[name])
                    /\ current_connection_name' = name
                    /\ scripts' = r.scripts
                    /\ list_state' = r.sel
                    /\ script_content_preview' = r.preview
                    /\ query_result' = Msg("Welcome! Press '?' for help.")
                    /\ UNCHANGED <<input_mode, filename_input, sql_files,
                                   query_row_count, result_scroll_x,
                                   result_scroll_y>>
  /\ UNCHANGED <<variant, connections, connection_list_state,
                 new_connection_name_buffer, saved_config, worldVars, keys,
                 last, execVars>>

\* App::new (app.rs): the first entry of the map is connected and
\* bootstrapped, then the scripts are loaded; each '?' returns the error.
App_new ==
  /\ variant = "db"
  /\ running = "starting"
  /\ IF DOMAIN connections = {}
     THEN /\ calls' = <<"connections.iter().next():None">>
          /\ Aborted
     ELSE \E name \in DOMAIN connections,
             connect_ok \in BOOLEAN, init_ok \in BOOLEAN, load_ok \in BOOLEAN :
            IF ~connect_ok
            THEN /\ calls' = <<"Client::connect:Err">>
                 /\ Aborted
            ELSE IF ~init_ok
            THEN /\ calls' = <<"Client::connect:Ok", "init_script_table:Err">>
                 /\ Aborted
            ELSE LET r == refresh_scripts(
                            get_all_scripts(db[Host(connections[name])],
                                            load_ok), <<>>, None, "")
                 IN IF ~r.ok
                    THEN /\ calls' = <<"Client::connect:Ok",
                                       "init_script_table:Ok",
                                       "refresh_scripts:Err">>
                         /\ Aborted
                    ELSE /\ calls' = <<"Client::connect:Ok",
                                       "init_script_table:Ok",
                                       "refresh_scripts:Ok">>
                         /\ running' = "running"
                         /\ client' = Host(connections[name])
                         /\ current_connection_name' = name
                         /\ scripts' = r.scripts
                         /\ list_state' = r.sel
                         /\ script_content_preview' = r.preview
                         /\ query_result' = Msg("Welcome! Press '?' for help.")
                         /\ UNCHANGED <<input_mode, filename_input, sql_files,
                                        query_row_count, result_scroll_x,
                                        result_scroll_y>>
  /\ UNCHANGED <<variant, connections, connection_list_state,
                 new_connection_name_buffer, saved_config, worldVars, keys,
                 last, execVars>>

\* App::new (main.rs): the script directory is scanned.
Fs_App_new ==
  /\ variant = "fs"
  /\ running = "starting"
  /\ \E read_ok \in BOOLEAN :
       LET r == rescan_scripts(files, read_ok, <<>>, None, "")
       IN IF ~r.ok
          THEN /\ calls' = <<"rescan_scripts:Err">>
               /\ Aborted
          ELSE /\ calls' = <<"rescan_scripts:Ok">>
               /\ running' = "running"
               /\ sql_files' = r.sql_files
               /\ list_state' = r.sel
               /\ script_content_preview' = r.preview
               /\ query_result' = Msg("Welcome!")
               /\ UNCHANGED <<input_mode, filename_input, scripts,
                              query_row_count, result_scroll_x,
                              result_scroll_y, client,
                              current_connection_name>>
  /\ UNCHANGED <<variant, connections, connection_list_state,
                 new_connection_name_buffer, saved_config, worldVars, keys,
                 last, execVars>>

NextStartup == App_new \/ Fs_App_new \/ Next

\* The program from main(): construction, then the event loop.
SpecStartup == InitStartup /\ [][NextStartup]_vars

\* ------------------------------------------------- execute_sql (src/db.rs)
\* Pieces the script texts are put together from: ' ', '\n', "--", "/*",
\* "*/", "/", "SELECT", "with", "x".
SqlTokens ==
  { <<32>>, <<10>>, <<45, 45>>, <<47, 42>>, <<42, 47>>, <<47>>,
    <<83, 69, 76, 69, 67, 84>>, <<119, 105, 116, 104>>, <<120>> }

RECURSIVE Flatten(_)
Flatten(ts) == IF ts = <<>> THEN <<>> ELSE Head(ts) \o Flatten(Tail(ts))

\* The contents a script may have.
SqlTexts ==
  UNION { {Flatten(ts) : ts \in [1..n -> SqlTokens]} : n \in 0..MaxTokens }

\* str::starts_with
StartsWith(s, p) == Len(s) >= Len(p) /\ SubSeq(s, 1, Len(p)) = p

\* str::find: the index of the first match, counted from 0.
Find(s, p) ==
  LET I == {i \in 0..(Len(s) - Len(p)) : SubSeq(s, i + 1, i + Len(p)) = p}
  IN IF I = {} THEN None ELSE Some(CHOOSE i \in I : \A j \in I : i <= j)

\* &s[i..]
From(s, i) == SubSeq(s, i + 1, Len(s))

ToUpper(c) == IF c \in 97..122 THEN c - 32 ELSE c

\* str::to_uppercase
to_uppercase(s) == [i \in 1..Len(s) |-> ToUpper(s[i])]

\* One pass of the loop that strips leading comments: what is left, and
\* whether the loop is left by a break. <<45, 45>> is "--", <<10>> is '\n',
\* <<47, 42>> is "/*" and <<42, 47>> is "*/".
strip_once(s) ==
  LET t == TrimStart(s)
  IN IF StartsWith(t, <<45, 45>>)
     THEN LET newline_idx == Find(t, <<10>>)
          IN IF newline_idx # None
             THEN [relevant_sql |-> From(t, newline_idx[1]), brk |-> FALSE]
             ELSE [relevant_sql |-> <<>>, brk |-> TRUE]
     ELSE IF StartsWith(t, <<47, 42>>)
     THEN LET end_comment_idx == Find(t, <<42, 47>>)
          IN IF end_comment_idx # None
             THEN [relevant_sql |-> From(t, end_comment_idx[1] + 2),
                   brk |-> FALSE]
             ELSE [relevant_sql |-> <<>>, brk |-> TRUE]
     ELSE [relevant_sql |-> t, brk |-> TRUE]

\* The test that sends a text down the query path: the text in upper case
\* starts with "SELECT" or with "WITH".
is_query(relevant) ==
  LET upper_sql == to_uppercase(relevant)
  IN \/ StartsWith(upper_sql, <<83, 69, 76, 69, 67, 84>>)
     \/ StartsWith(upper_sql, <<87, 73, 84, 72>>)

\* The whole loop, and the path execute_sql takes for a text.
RECURSIVE strip_all(_)
strip_all(s) ==
  LET r == strip_once(s)
  IN IF r.brk THEN r.relevant_sql ELSE strip_all(r.relevant_sql)

classify(text) ==
  IF is_query(strip_all(Trim(text))) THEN "Query" ELSE "Command"

\* A faulty variant of SentText: the stripped text is executed.
SentText_stripped(original, stripped) == stripped

\* The text handed to client.query / client.batch_execute.
SentText(original, stripped) == original

\* The decimal digits of a number, as Display and Debug print them.
RECURSIVE Digits(_)
Digits(n) ==
  IF n < 10 THEN <<48 + n>> ELSE Digits(n \div 10) \o <<48 + (n % 10)>>

\* ------------------------------------------ execute_sql: errors (db.rs)
\* A postgres::Error: a DbError of the backend (db) with its SqlState,
\* message and optional detail, hint and position, or another error, of
\* which only the Display text is known.
NoError ==
  [db |-> FALSE, code |-> <<>>, message |-> <<>>, detail |-> None,
   hint |-> None, position |-> None, display |-> <<>>]

\* <<52, 50, 80, 48, 49>> is "42P01"; <<109>> "m", <<109, 32>> "m ";
\* <<100>> "d"; <<104>> "h"; <<99>> "c".
Errors ==
  { [db |-> TRUE, code |-> <<52, 50, 80, 48, 49>>, message |-> m,
     detail |-> d, hint |-> h, position |-> p, display |-> <<>>] :
      m \in {<<109>>, <<109, 32>>}, d \in {None, Some(<<100>>)},
      h \in {None, Some(<<>>), Some(<<104>>)}, p \in {None, Some(7)} }
  \cup {[NoError EXCEPT !.display = <<99>>]}

\* A faulty variant of format_db_error: detail, hint and position are left
\* out.
format_db_error_short(e, context) ==
  IF e.db
  THEN MsgOf(context, <<32, 40, 83, 113, 108, 83, 116, 97, 116, 101, 40, 69>>
                        \o e.code \o <<41, 41, 10, 10>>
                        \o <<77, 101, 115, 115, 97, 103, 101, 58, 32>>
                        \o e.message)
  ELSE MsgOf(context, <<58, 32>> \o e.display)

\* format_db_error: the context is kept as it is, the text that follows it
\* is built of code points. {:?} of the SqlState 42P01 is
\* "SqlState(E42P01)", {:?} of a position 7 is "Original(7)".
format_db_error(e, context) ==
  IF e.db
  THEN LET head == <<32, 40, 83, 113, 108, 83, 116, 97, 116, 101, 40, 69>>
                     \o e.code \o <<41, 41, 10, 10>>
                     \o <<77, 101, 115, 115, 97, 103, 101, 58, 32>>
                     \o e.message \o <<10>>
           detail == IF e.detail # None
                     THEN <<68, 101, 116, 97, 105, 108, 58, 32>>
                            \o e.detail[1] \o <<10>>
                     ELSE <<>>
           hint == IF e.hint # None
                   THEN <<72, 105, 110, 116, 58, 32>> \o e.hint[1] \o <<10>>
                   ELSE <<>>
           position ==
             IF e.position # None
             THEN <<80, 111, 115, 105, 116, 105, 111, 110, 58, 32, 97, 116,
                    32, 99, 104, 97, 114, 97, 99, 116, 101, 114, 32>>
                    \o <<79, 114, 105, 103, 105, 110, 97, 108, 40>>
                    \o Digits(e.position[1]) \o <<41, 10>>
             ELSE <<>>
       IN MsgOf(context, TrimEnd(head \o detail \o hint \o position))
  ELSE MsgOf(context, <<58, 32>> \o e.display)

execFrame == <<variant, running, input_mode, filename_input, scripts,
               sql_files, list_state, script_content_preview, connVars,
               worldVars, calls, keys, last>>

\* The script was read; the database is connected and the text trimmed.
ExecuteSql_connect ==
  /\ exec_pc = "start"
  /\ \E connect_ok \in BOOLEAN :
       IF connect_ok
       THEN /\ relevant_sql' = Trim(sql_content)
            /\ exec_pc' = "loop"
            /\ UNCHANGED <<query_result, query_row_count, result_scroll_x,
                           result_scroll_y>>
       ELSE /\ SetQueryResult(Msg("Error connecting to database"))
            /\ exec_pc' = "done"
            /\ UNCHANGED relevant_sql
  /\ UNCHANGED <<sql_content, sent, queryVars, execFrame>>

\* One pass of the loop.
ExecuteSql_strip ==
  /\ exec_pc = "loop"
  /\ LET r == strip_once(relevant_sql)
     IN /\ relevant_sql' = r.relevant_sql
        /\ exec_pc' = IF r.brk THEN "classify" ELSE "loop"
  /\ UNCHANGED <<sql_content, sent, queryVars, query_result,
                 query_row_count, result_scroll_x, result_scroll_y,
                 execFrame>>

\* The text is classified and handed to the backend; the result of a
\* command is shown, the result of a query is rendered by the steps below.
ExecuteSql_run ==
  /\ exec_pc = "classify"
  /\ IF is_query(relevant_sql)
     THEN /\ sent' = Some([api |-> "query",
                           text |-> SentText(sql_content, relevant_sql)])
          /\ exec_pc' = "query"
          /\ UNCHANGED <<query_result, query_row_count, result_scroll_x,
                         result_scroll_y>>
     ELSE /\ sent' = Some([api |-> "batch_execute",
                           text |-> SentText(sql_content, relevant_sql)])
          /\ SetQueryResult(
               IF reply.ok THEN Msg("Command executed successfully.")
               ELSE format_db_error(reply.error, "Error executing command"))
          /\ exec_pc' = "done"
  /\ UNCHANGED <<sql_content, relevant_sql, queryVars, execFrame>>

\* ------------------------------------- execute_sql: the query path (db.rs)
\* A column of a result set: its name and the name of its type. "bpchar"
\* stands for the types that have no arm of their own.
ColumnLists ==
  { <<>>,
    <<[name |-> <<105, 100>>, type |-> "int4"]>>,
    <<[name |-> <<110>>, type |-> "text"],
      [name |-> <<111, 107>>, type |-> "bool"]>>,
    <<[name |-> <<233>>, type |-> "text"],
      [name |-> <<99>>, type |-> "bpchar"]>>,
    <<[name |-> <<110>>, type |-> "text"],
      [name |-> <<110>>, type |-> "text"]>> }

\* What row.try_get::<usize, Option<T>>(i) gives for a cell of a column of
\* the type: Ok(Some(v)), Ok(None) or Err(e). The value v is in the field
\* b for a bool, n for an integer and s for a String; the text of e is in s.
CellsOf(type) ==
  LET cell(kind, b, n, s) == [kind |-> kind, b |-> b, n |-> n, s |-> s]
      null == cell("null", FALSE, 0, <<>>)
      err == cell("err", FALSE, 0, <<101>>)
  IN CASE type = "bool" -> {cell("some", TRUE, 0, <<>>), null, err}
       [] type = "int4" ->
            {cell("some", FALSE, 0, <<>>), cell("some", FALSE, -12, <<>>), err}
       [] type = "text" ->
            {cell("some", FALSE, 0, s) : s \in {<<>>, <<233>>, <<120, 10, 120>>}}
              \cup {null, err}
       [] OTHER -> {cell("some", FALSE, 0, <<97, 98>>), err}

RowsOf(columns) ==
  { row \in [1..Len(columns) ->
               UNION {CellsOf(columns[i].type) : i \in 1..Len(columns)}] :
      \A i \in 1..Len(columns) : row[i] \in CellsOf(columns[i].type) }

\* What client.query or client.batch_execute returns: Err(e), or Ok with
\* the rows in the order of the backend.
QueryFailed(e) ==
  [ok |-> FALSE, columns |-> <<>>, rows |-> <<>>, error |-> e]

Replies ==
  {QueryFailed(e) : e \in Errors} \cup
  UNION { UNION { { [ok |-> TRUE, columns |-> cs, rows |-> rs,
                     error |-> NoError] :
                      rs \in [1..n -> RowsOf(cs)] } : n \in 0..MaxRows } :
          cs \in ColumnLists }

\* String::len: the length in bytes of the UTF-8 encoding.
RECURSIVE len(_)
len(s) ==
  IF s = <<>> THEN 0
  ELSE (IF Head(s) < 128 THEN 1
        ELSE IF Head(s) < 2048 THEN 2
        ELSE IF Head(s) < 65536 THEN 3 ELSE 4) + len(Tail(s))

\* i32::to_string / bool::to_string
to_string(type, cell) ==
  IF type = "bool"
  THEN (IF cell.b THEN <<116, 114, 117, 101>> ELSE <<102, 97, 108, 115, 101>>)
  ELSE IF cell.n < 0 THEN <<45>> \o Digits(0 - cell.n) ELSE Digits(cell.n)

\* The name of a type as the fallback arm prints it.
TypeName(type) ==
  CASE type = "bpchar" -> <<98, 112, 99, 104, 97, 114>>
    [] type = "text" -> <<116, 101, 120, 116>>
    [] type = "int4" -> <<105, 110, 116, 52>>
    [] OTHER -> <<98, 111, 111, 108>>

\* The text of one cell: the match on the type of the column. "NULL" for
\* Ok(None), "<Err: e>" for Err(e) in the arms of the known types and
\* "<type: e>" in the fallback arm.
val_str(type, cell) ==
  CASE cell.kind = "null" -> <<78, 85, 76, 76>>
    [] cell.kind = "err" ->
         IF type \in {"bool", "int4", "text"}
         THEN <<60, 69, 114, 114, 58, 32>> \o cell.s \o <<62>>
         ELSE <<60>> \o TypeName(type) \o <<58, 32>> \o cell.s \o <<62>>
    [] OTHER ->
         IF type \in {"bool", "int4"} THEN to_string(type, cell)
         ELSE cell.s

\* A faulty variant of row_values: the cells after a failed one are lost.
row_values_abort(columns, row) ==
  [i \in 1..Len(columns) |->
     IF \E j \in 1..i : row[j].kind = "err"
     THEN <<60, 69, 114, 114, 58, 32>> \o <<101>> \o <<62>>
     ELSE val_str(columns[i].type, row[i])]

\* The values of one row, in the order of the columns.
row_values(columns, row) ==
  [i \in 1..Len(columns) |-> val_str(columns[i].type, row[i])]

\* A faulty variant of widen: the cells are not measured.
widen_keep(width, value) == width

\* widths[i].max(val_str.len())
widen(width, value) == IF len(value) > width THEN len(value) ELSE width

\* format!("{:<width$} | ", value): padded on the right with spaces up to
\* width characters.
pad(value, width) ==
  value \o [i \in 1..(IF width > Len(value) THEN width - Len(value) ELSE 0)
              |-> 32] \o <<32, 124, 32>>

format_line(values, ws) ==
  Flatten([i \in 1..Len(values) |-> pad(values[i], ws[i])]) \o <<10>>

\* "-".repeat(width) and "---" for every column.
separator(ws) ==
  Flatten([i \in 1..Len(ws) |-> [j \in 1..(ws[i] + 3) |-> 45]]) \o <<10>>

\* A faulty variant of data_lines: the last row comes first.
data_lines_reversed(rows, ws) ==
  Flatten([r \in 1..Len(rows) |-> format_line(rows[Len(rows) + 1 - r], ws)])

\* The lines of the rows, in the order of rows_data.
data_lines(rows, ws) ==
  Flatten([r \in 1..Len(rows) |-> format_line(rows[r], ws)])

format_table(names, ws, rows) ==
  format_line(names, ws) \o separator(ws) \o data_lines(rows, ws)

\* The formatted table as the text of the result pane.
FormattedResult(output) == MsgOf("{}", output)

\* client.query returned: an error, no rows, or rows whose columns are named
\* and measured.
Query_rows ==
  /\ exec_pc = "query"
  /\ IF ~reply.ok
     THEN /\ SetQueryResult(format_db_error(reply.error,
                                             "Error executing query"))
          /\ exec_pc' = "done"
          /\ UNCHANGED <<column_names, widths, rows_data>>
     ELSE IF reply.rows = <<>>
     THEN /\ SetQueryResult(Msg("Query returned 0 rows."))
          /\ exec_pc' = "done"
          /\ UNCHANGED <<column_names, widths, rows_data>>
     ELSE /\ column_names' = [i \in 1..Len(reply.columns) |->
                                reply.columns[i].name]
          /\ widths' = [i \in 1..Len(reply.columns) |->
                          len(reply.columns[i].name)]
          /\ rows_data' = <<>>
          /\ exec_pc' = "rows"
          /\ UNCHANGED <<query_result, query_row_count, result_scroll_x,
                         result_scroll_y>>
  /\ UNCHANGED <<sql_content, relevant_sql, sent, reply, execFrame>>

\* One pass of the loop over the rows.
Query_row ==
  /\ exec_pc = "rows"
  /\ Len(rows_data) < Len(reply.rows)
  /\ LET values == row_values(reply.columns, reply.rows[Len(rows_data) + 1])
     IN /\ widths' = [i \in 1..Len(widths) |-> widen(widths[i], values[i])]
        /\ rows_data' = Append(rows_data, values)
  /\ UNCHANGED <<sql_content, relevant_sql, exec_pc, sent, reply,
                 column_names, query_result, query_row_count,
                 result_scroll_x, result_scroll_y, execFrame>>

\* The table is formatted and shown.
Query_format ==
  /\ exec_pc = "rows"
  /\ Len(rows_data) = Len(reply.rows)
  /\ SetQueryResult(FormattedResult(format_table(column_names, widths,
                                                 rows_data)))
  /\ exec_pc' = "done"
  /\ UNCHANGED <<sql_content, relevant_sql, sent, queryVars, execFrame>>

\* A call of execute_sql on a script with any of the texts, on a database
\* where a query returns no rows.
InitClassify ==
  /\ InitFs
  /\ running = "running"
  /\ calls = <<>>
  /\ keys = 0
  /\ last = [mode |-> "Normal", key |-> "Enter"]
  /\ sql_content \in SqlTexts
  /\ relevant_sql = <<>>
  /\ exec_pc = "start"
  /\ sent = None
  /\ reply = [ok |-> TRUE, columns |-> <<>>, rows |-> <<>>,
              error |-> NoError]
  /\ column_names = <<>>
  /\ widths = <<>>
  /\ rows_data = <<>>

NextClassify ==
  \/ ExecuteSql_connect
  \/ ExecuteSql_strip
  \/ ExecuteSql_run
  \/ Query_rows

SpecClassify == InitClassify /\ [][NextClassify]_vars

\* A call of execute_sql on a query or a command, with any of the replies.
InitQuery ==
  /\ InitFs
  /\ running = "running"
  /\ calls = <<>>
  /\ keys = 0
  /\ last = [mode |-> "Normal", key |-> "Enter"]
  /\ sql_content \in {<<115, 101, 108, 101, 99, 116>>, <<47, 42, 42, 47, 120>>}
  /\ relevant_sql = <<>>
  /\ exec_pc = "start"
  /\ sent = None
  /\ reply \in Replies
  /\ column_names = <<>>
  /\ widths = <<>>
  /\ rows_data = <<>>

NextQuery == NextClassify \/ Query_row \/ Query_format

SpecQuery == InitQuery /\ [][NextQuery]_vars


\* ------------------------------------------------ scrolling the result pane
\* The offsets a session can have scrolled to: near the top left corner and
\* near the end of the u16 range.
ScrollOffsets ==
  (0..(4 * MaxScroll + 1)) \cup ((U16Max - 4 * MaxScroll - 1)..U16Max)

\* A session of the database variant in Normal mode whose result pane has
\* been scrolled to any of the offsets; keys counts the events from here.
InitScroll ==
  /\ ExecIdle
  /\ running = "running"
  /\ calls = <<>>
  /\ keys = 0
  /\ last = [mode |-> "Normal", key |-> "none"]
  /\ variant = "db"
  /\ connections = [n \in {InitName} |-> InitUrl]
  /\ saved_config = connections
  /\ connection_list_state = None
  /\ current_connection_name = InitName
  /\ new_connection_name_buffer = <<>>
  /\ client = Host(InitUrl)
  /\ db = [d \in Databases |-> EmptyTable]
  /\ files = EmptyMap
  /\ scripts = <<>>
  /\ sql_files = <<>>
  /\ list_state = None
  /\ query_result = Msg("<table>")
  /\ query_row_count = Some(1)
  /\ script_content_preview = "No scripts found."
  /\ input_mode = "Normal"
  /\ filename_input = <<>>
  /\ result_scroll_x \in ScrollOffsets
  /\ result_scroll_y \in ScrollOffsets

NextScroll == Normal_h \/ Normal_l \/ Normal_Down \/ Normal_Up

SpecScroll == InitScroll /\ [][NextScroll]_vars

\* ================================================================= claims
\* The in-memory catalog of the running variant.
Catalog == IF variant = "db" THEN scripts ELSE sql_files

\* The names of the scripts in the store the session works on.
StoredNames ==
  IF variant = "db" THEN {r.name : r \in db[client].rows}
  ELSE {FileStem(p) : p \in DOMAIN files}

\* Option<usize> of the catalog entry that carries the name.
CatalogPosition(name) ==
  IF variant = "db" THEN PositionFrom(NamesOf(scripts), name, 1)
  ELSE PositionFrom(sql_files, PathOf(name), 1)

\* The step is the key event (m, k).
KeyEvent(m, k) == keys' = keys + 1 /\ last' = [mode |-> m, key |-> k]

CatalogUnchanged == UNCHANGED <<db, files, scripts, sql_files>>

NameEntryModes == {"EditingFilename", "RenamingScript"}
TextModes == NameEntryModes \cup {"AddingConnectionName", "AddingConnectionUrl"}

ErrorMessages ==
  { Msg("Error creating script"), Msg("Error renaming"),
    Msg("Error deleting script"), Msg("Error: File already exists."),
    Msg("Error deleting file"), Msg("Error renaming file") }

CancelMessages == { Msg("New script cancelled."), Msg("Rename cancelled.") }

FailedCalls ==
  { "create_script:Err", "rename_script:Err", "delete_script:Err", "exists",
    "fs::write:Err", "remove_file:Err", "fs::rename:Err" }

RefreshCalls ==
  { "refresh_scripts:Ok", "refresh_scripts:Err",
    "rescan_scripts:Ok", "rescan_scripts:Err" }

LastCall(c) == IF c = <<>> THEN "none" ELSE c[Len(c)]

\* The name is carried by a script of the store.
NameTaken(name) == name \in StoredNames

\* The name is carried by a script of the store other than the one a
\* rename is about.
NameOfOther(name) ==
  IF variant = "db"
  THEN \E r \in db[client].rows :
         /\ r.name = name
         /\ input_mode = "RenamingScript" =>
              /\ get_selected_script(scripts, list_state) # None
              /\ r.id # get_selected_script(scripts, list_state)[1].id
  ELSE /\ PathOf(name) \in DOMAIN files
       /\ input_mode = "RenamingScript" =>
            SelectedPath(sql_files, list_state) # Some(PathOf(name))

\* C1: after any sequence of key events, failed catalog operations and
\* failed refreshes included, the selection is none or an index strictly
\* below the length of the in-memory catalog.
C1_SelectionInBounds == list_state # None => list_state[1] < Len(Catalog)

\* A delete went through, the reload after it failed, and a script is
\* still selected in the stale list.
C1_Witness ==
  /\ last = [mode |-> "ConfirmingDelete", key |-> "y"]
  /\ calls = <<"delete_script:Ok", "refresh_scripts:Err">>
  /\ list_state # None

\* Enter in a name-entry mode with a name another script carries.
DuplicateCommit ==
  /\ input_mode \in NameEntryModes
  /\ KeyEvent(input_mode, "Enter")
  /\ NameOfOther(Trim(filename_input))

\* C2 as claimed: a commit with a name that already exists is rejected,
\* the catalog is unchanged, an error message is set and the mode stays the
\* name-entry mode.
C2_Original ==
  [][DuplicateCommit =>
       /\ CatalogUnchanged
       /\ query_result' \in ErrorMessages
       /\ input_mode' = input_mode]_vars

\* C2 as amended: a commit with a name another script carries is rejected,
\* the catalog is unchanged, an error message is set and the mode becomes
\* Normal.
C2_Amended ==
  [][DuplicateCommit =>
       /\ CatalogUnchanged
       /\ query_result' \in ErrorMessages
       /\ input_mode' = "Normal"]_vars

\* A create was committed with a name the store already holds.
C2_Witness ==
  /\ last = [mode |-> "EditingFilename", key |-> "Enter"]
  /\ calls \in {<<"create_script:Err">>, <<"exists">>}
  /\ Trim(filename_input) \in StoredNames
  /\ query_result \in ErrorMessages
  /\ input_mode = "Normal"

\* The last key event was a create, rename or delete whose catalog
\* operation failed.
CatalogOpFailed ==
  /\ last.mode \in NameEntryModes \cup {"ConfirmingDelete"}
  /\ last.key \in {"Enter", "y"}
  /\ LastCall(calls) \in FailedCalls

\* C3: when a create, rename or delete fails, the error is reported as a
\* message and the mode afterwards is Normal.
C3_Claim ==
  CatalogOpFailed => (input_mode = "Normal" /\ query_result \in ErrorMessages)

SwitchFailed(c) ==
  /\ c # <<>>
  /\ c[1] = "switch_connection"
  /\ LastCall(c) \in {"Client::connect:Err", "init_script_table:Err",
                      "refresh_scripts:Err"}

\* C4: when a switch of the connection fails for any reason, the active
\* handle and the current connection name are what they were before, and
\* the handle is swapped only after connect and bootstrap both succeeded.
C4_Claim ==
  [][(KeyEvent("SelectingConnection", "Enter") /\ calls' # <<>>) =>
       /\ SwitchFailed(calls') =>
            /\ client' = client
            /\ current_connection_name' = current_connection_name
       /\ (\E i \in 1..Len(calls') : calls'[i] = "swap") =>
            /\ calls'[2] = "Client::connect:Ok"
            /\ calls'[3] = "init_script_table:Ok"]_vars

\* C5: no error that arises while a key event is handled ends the session.
C5_Claim == running # "failed"

CancelInTextMode == input_mode \in TextModes /\ KeyEvent(input_mode, "Esc")

\* C6 as claimed: from every text-input mode the cancel key moves to
\* Normal, mutates no catalog and sets a cancellation message.
C6_Original ==
  [][CancelInTextMode =>
       /\ input_mode' = "Normal"
       /\ CatalogUnchanged
       /\ query_result' \in CancelMessages]_vars

\* C6 as amended: the cancel key mutates no catalog; from the two name-entry
\* modes it moves to Normal and sets the cancellation message, from the two
\* add-connection modes it moves back to SelectingConnection and leaves the
\* message as it was.
C6_Amended ==
  [][CancelInTextMode =>
       /\ CatalogUnchanged
       /\ UNCHANGED <<connections, saved_config, client>>
       /\ IF input_mode \in NameEntryModes
          THEN /\ input_mode' = "Normal"
               /\ query_result' \in CancelMessages
          ELSE /\ input_mode' = "SelectingConnection"
               /\ query_result' = query_result]_vars

\* The url entry of a new connection was cancelled.
C6_Witness ==
  /\ last = [mode |-> "AddingConnectionUrl", key |-> "Esc"]
  /\ input_mode = "SelectingConnection"
  /\ new_connection_name_buffer # <<>>

\* C7: ConfirmingDelete is entered only by the delete key in Normal with a
\* script selected, so a script is selected whenever the mode is
\* ConfirmingDelete; without a selection the delete key changes neither
\* mode, catalog nor selection and only sets a message.
C7_DeleteGuard ==
  /\ [](input_mode = "ConfirmingDelete" =>
          (list_state # None /\ list_state[1] < Len(Catalog)))
  /\ [][(input_mode' = "ConfirmingDelete" /\ input_mode # "ConfirmingDelete")
          => (KeyEvent("Normal", "d") /\ list_state # None)]_vars
  /\ [][(KeyEvent("Normal", "d") /\ list_state = None) =>
          /\ input_mode' = "Normal"
          /\ CatalogUnchanged
          /\ list_state' = None
          /\ query_result' = Msg("No script selected to delete.")]_vars

\* The delete key opened the prompt for the selected script.
C7_Witness ==
  /\ last = [mode |-> "Normal", key |-> "d"]
  /\ input_mode = "ConfirmingDelete"
  /\ list_state # None

\* The preview the selection calls for.
PreviewOfSelection ==
  IF variant = "db"
  THEN IF list_state # None /\ list_state[1] < Len(scripts)
       THEN scripts[list_state[1] + 1].content ELSE "No scripts found."
  ELSE IF list_state = None THEN "No SQL files found."
       ELSE IF list_state[1] < Len(sql_files)
            /\ sql_files[list_state[1] + 1] \in DOMAIN files
       THEN files[sql_files[list_state[1] + 1]] ELSE "Error reading file"

\* The step is a key event whose selection is the one its refresh left:
\* a confirmed delete, an edit or a connection switch, with the reload done.
RefreshStep ==
  /\ keys' = keys + 1
  /\ LastCall(calls') \in {"refresh_scripts:Ok", "rescan_scripts:Ok"}
  /\ \/ last' = [mode |-> "ConfirmingDelete", key |-> "y"]
     \/ last' = [mode |-> "Normal", key |-> "e"]
     \/ last' = [mode |-> "SelectingConnection", key |-> "Enter"]

\* C8: a refresh keeps the selection index exactly when it is below the new
\* catalog length, otherwise selects index 0 of a non-empty catalog and none
\* of an empty one, and recomputes the preview for the selection it leaves.
C8_Refresh ==
  [][RefreshStep =>
       /\ list_state' =
            IF list_state # None /\ list_state[1] < Len(Catalog') THEN list_state
            ELSE IF Len(Catalog') > 0 THEN Some(0) ELSE None
       /\ script_content_preview' = PreviewOfSelection']_vars

\* The last script was deleted: the reload found nothing to select.
C8_Witness ==
  /\ last = [mode |-> "ConfirmingDelete", key |-> "y"]
  /\ LastCall(calls) \in {"refresh_scripts:Ok", "rescan_scripts:Ok"}
  /\ Catalog = <<>>
  /\ list_state = None

\* The i-th call of the last key event changed the stored catalog.
IsMutation(i) ==
  \/ calls[i] \in {"create_script:Ok", "rename_script:Ok", "delete_script:Ok",
                   "update_script_content:Ok", "remove_file:Ok",
                   "fs::rename:Ok"}
  \/ calls[i] = "fs::write:Ok" /\ variant = "fs"
  \/ calls[i] \in {"open_editor:true", "open_editor:false"} /\ variant = "fs"

\* C9: every successful catalog mutation of a key event is followed, in the
\* same event, by a refresh of the catalog before the loop renders and reads
\* the next key.
C9_RefreshFollows ==
  running = "running" =>
    \A i \in 1..Len(calls) :
      IsMutation(i) => \E j \in (i + 1)..Len(calls) : calls[j] \in RefreshCalls

\* An edit was saved and the list reloaded.
C9_Witness ==
  /\ last = [mode |-> "Normal", key |-> "e"]
  /\ Len(calls) = 5
  /\ calls[4] = "update_script_content:Ok"
  /\ calls[5] = "refresh_scripts:Ok"
  /\ script_content_preview = "SELECT 1"

\* Enter in a name-entry mode with a non-empty name no script carries, the
\* store and the editor answering without failure.
FreshCommit ==
  /\ input_mode \in NameEntryModes
  /\ KeyEvent(input_mode, "Enter")
  /\ Trim(filename_input) # <<>>
  /\ ~NameTaken(Trim(filename_input))
  /\ calls' # <<>>
  /\ \A i \in 1..Len(calls') :
       calls'[i] \notin FailedCalls \cup {"open_editor:Err"}

\* The name the store holds for the script a rename is about.
OldNames ==
  IF variant = "db"
  THEN LET sel == get_selected_script(scripts, list_state)
       IN {r.name : r \in {x \in db[client].rows : sel # None /\ x.id = sel[1].id}}
  ELSE LET path == SelectedPath(sql_files, list_state)
       IN IF path = None THEN {} ELSE {FileStem(path[1])}

\* C10: a commit with a non-empty name that does not collide performs the
\* mutation (the name is in the store afterwards, and for a rename the old
\* name is not), the selection is the index of the entry that carries the
\* name if the catalog shows it, which it does after a successful refresh,
\* and the mode is Normal.
C10_Commit ==
  [][FreshCommit =>
       LET name == Trim(filename_input)
       IN /\ name \in StoredNames'
          /\ input_mode = "RenamingScript" => OldNames \cap StoredNames' = {}
          /\ CatalogPosition(name)' # None => list_state' = CatalogPosition(name)'
          /\ LastCall(calls') \in {"refresh_scripts:Ok", "rescan_scripts:Ok"} =>
               (CatalogPosition(name)' # None /\ input_mode' = "Normal")
          /\ variant = "db" => input_mode' = "Normal"]_vars

\* A second script was created and is selected at its place in the order.
C10_Witness ==
  /\ last = [mode |-> "EditingFilename", key |-> "Enter"]
  /\ calls = <<"create_script:Ok", "refresh_scripts:Ok">>
  /\ Len(scripts) = 2
  /\ list_state = Some(1)
  /\ scripts[2].name = Trim(filename_input)
  /\ input_mode = "Normal"


\* The buffer holds nothing but white space.
OnlySpaces(buf) == \A i \in 1..Len(buf) : buf[i] = 32

\* C11: Enter in EditingName(Create) with a buffer that is empty after
\* trimming is a cancellation: nothing is created, the catalog is unchanged,
\* the mode becomes Normal and the message is the cancellation message.
C11_EmptyCommit ==
  [][(KeyEvent("EditingFilename", "Enter") /\ OnlySpaces(filename_input)) =>
       /\ CatalogUnchanged
       /\ calls' = <<>>
       /\ input_mode' = "Normal"
       /\ query_result' = Msg("New script cancelled.")]_vars

\* A buffer of blanks was committed as a new name.
C11_Witness ==
  /\ last = [mode |-> "EditingFilename", key |-> "Enter"]
  /\ filename_input # <<>>
  /\ OnlySpaces(filename_input)
  /\ input_mode = "Normal"
  /\ query_result = Msg("New script cancelled.")

\* The name of the i-th entry of the in-memory catalog.
NameAt(i) ==
  IF variant = "db" THEN scripts[i].name ELSE FileStem(sql_files[i])

\* C12: on entering EditingName(Rename) the edit buffer is the name of the
\* selected script, and on entering EditingName(Create) it is empty,
\* whatever it held before.
C12_BufferOnEntry ==
  /\ [][(input_mode' = "RenamingScript" /\ input_mode # "RenamingScript") =>
          /\ KeyEvent("Normal", "r")
          /\ list_state # None
          /\ list_state[1] < Len(Catalog)
          /\ filename_input' = NameAt(list_state[1] + 1)]_vars
  /\ [][(input_mode' = "EditingFilename" /\ input_mode # "EditingFilename") =>
          /\ KeyEvent("Normal", "a")
          /\ filename_input' = <<>>]_vars

\* A rename was opened on the second of two scripts.
C12_Witness ==
  /\ last = [mode |-> "Normal", key |-> "r"]
  /\ input_mode = "RenamingScript"
  /\ list_state = Some(1)
  /\ Len(Catalog) = 2
  /\ filename_input = NameAt(2)
  /\ filename_input # NameAt(1)

\* C13: the connection map and the saved configuration change only when a
\* non-empty trimmed url is committed in AddingConnectionUrl for a non-empty
\* trimmed name committed before in AddingConnectionName; an empty commit or
\* a cancel at either step changes neither.
C13_AddConnection ==
  /\ [][(connections' # connections \/ saved_config' # saved_config) =>
          /\ KeyEvent("AddingConnectionUrl", "Enter")
          /\ ~OnlySpaces(filename_input)
          /\ ~OnlySpaces(new_connection_name_buffer)
          /\ new_connection_name_buffer \notin DOMAIN connections
          /\ DOMAIN connections' =
               DOMAIN connections \cup {new_connection_name_buffer}
          /\ ~OnlySpaces(connections'[new_connection_name_buffer])
          /\ \A n \in DOMAIN connections : connections'[n] = connections[n]
          /\ saved_config' \in {saved_config, connections'}]_vars
  /\ [][(input_mode' = "AddingConnectionUrl"
          /\ input_mode # "AddingConnectionUrl") =>
          /\ KeyEvent("AddingConnectionName", "Enter")
          /\ ~OnlySpaces(filename_input)
          /\ ~OnlySpaces(new_connection_name_buffer')]_vars
  /\ [][input_mode = "AddingConnectionUrl" =>
          new_connection_name_buffer' = new_connection_name_buffer]_vars

\* A connection was added and written to the configuration.
C13_Witness ==
  /\ last = [mode |-> "AddingConnectionUrl", key |-> "Enter"]
  /\ calls = <<"insert", "save_config:Ok">>
  /\ new_connection_name_buffer \in DOMAIN connections
  /\ saved_config = connections
  /\ Cardinality(DOMAIN connections) = 2

C15_QuitOnlyFromNormal ==
  /\ [](keys = 0 => (input_mode = "Normal" /\ running = "running"))
  /\ [][(running' = "quit" /\ running # "quit") =>
          KeyEvent("Normal", "q")]_vars
  /\ [][(input_mode # "Normal" /\ keys' = keys + 1
          /\ last'.key \in {"Char", "Esc", "other"}) =>
          running' = "running"]_vars

\* 'q' was pressed in Normal after some other key.
C15_Witness ==
  /\ running = "quit"
  /\ last = [mode |-> "Normal", key |-> "q"]
  /\ keys > 1

\* What the help overlay leaves alone.
HelpFrame ==
  UNCHANGED <<variant, running, filename_input, scripts, sql_files, list_state,
              query_result, query_row_count, script_content_preview,
              result_scroll_x, result_scroll_y, connVars, worldVars>>

\* C16: ShowHelp is a pure overlay: it is entered from Normal by '?', which
\* changes only the mode; in ShowHelp the toggle-back keys change only the
\* mode, to Normal, and every other key changes nothing.
C16_HelpOverlay ==
  /\ [][(input_mode' = "ShowHelp" /\ input_mode # "ShowHelp") =>
          (KeyEvent("Normal", "?") /\ HelpFrame)]_vars
  /\ [][KeyEvent("Normal", "?") => (input_mode' = "ShowHelp" /\ HelpFrame)]_vars
  /\ [][input_mode = "ShowHelp" =>
          /\ HelpFrame
          /\ input_mode' = IF last'.key = "Esc" THEN "Normal" ELSE "ShowHelp"]_vars

\* The help was closed over a scrolled result and a loaded catalog.
C16_Witness ==
  /\ last = [mode |-> "ShowHelp", key |-> "Esc"]
  /\ input_mode = "Normal"
  /\ result_scroll_x > 0
  /\ scripts # <<>>


\* C17 as claimed: construction is aborted when no connection is
\* configured, when the initial connection fails or when the initial schema
\* bootstrap fails, and under no other condition.
C17_Original ==
  [][(running = "starting" /\ variant = "db") =>
       (running' = "aborted" <=>
          LastCall(calls') \in {"connections.iter().next():None",
                                "Client::connect:Err",
                                "init_script_table:Err"})]_vars

\* C17 as amended: construction is aborted when no connection is
\* configured, when the initial connection fails, when the initial schema
\* bootstrap fails or when the initial load of the catalog fails, and under
\* no other condition; otherwise the session starts in Normal.
C17_Amended ==
  [][running = "starting" =>
       /\ running' = "aborted" <=>
            LastCall(calls') \in {"connections.iter().next():None",
                                  "Client::connect:Err",
                                  "init_script_table:Err",
                                  "refresh_scripts:Err",
                                  "rescan_scripts:Err"}
       /\ running' \in {"aborted", "running"}
       /\ running' = "running" => input_mode' = "Normal"
       /\ (variant = "db" /\ DOMAIN connections = {}) => running' = "aborted"]_vars

\* Connection and bootstrap succeeded and the load of the scripts failed:
\* construction returned the error.
C17_Witness ==
  /\ running = "aborted"
  /\ calls = <<"Client::connect:Ok", "init_script_table:Ok",
               "refresh_scripts:Err">>


\* The first index, from 1, at which pat occurs in s at or after from;
\* 0 if there is none.
FirstAt(s, pat, from) ==
  LET I == {i \in from..(Len(s) - Len(pat) + 1) :
              SubSeq(s, i, i + Len(pat) - 1) = pat}
  IN IF I = {} THEN 0 ELSE CHOOSE i \in I : \A j \in I : i <= j

\* What follows the leading white space and comments of a text: a line
\* comment runs from "--" through the next newline, a block comment from
\* "/*" through the first "*/" after it; a comment that is not closed takes
\* the rest of the text.
RECURSIVE AfterComments(_)
AfterComments(s) ==
  IF s = <<>> THEN <<>>
  ELSE IF s[1] \in {9, 10, 13, 32} THEN AfterComments(Tail(s))
  ELSE IF Len(s) >= 2 /\ s[1] = 45 /\ s[2] = 45
  THEN LET nl == FirstAt(s, <<10>>, 3)
       IN IF nl = 0 THEN <<>> ELSE AfterComments(SubSeq(s, nl + 1, Len(s)))
  ELSE IF Len(s) >= 2 /\ s[1] = 47 /\ s[2] = 42
  THEN LET cl == FirstAt(s, <<42, 47>>, 3)
       IN IF cl = 0 THEN <<>> ELSE AfterComments(SubSeq(s, cl + 2, Len(s)))
  ELSE s

\* The text, case-folded, starts with SELECT or WITH.
LeadsWithKeyword(s) ==
  \E kw \in {<<83, 69, 76, 69, 67, 84>>, <<87, 73, 84, 72>>} :
    /\ Len(s) >= Len(kw)
    /\ \A i \in 1..Len(kw) : s[i] \in {kw[i], kw[i] + 32}

\* execute_sql ran the text to the end and sent it to the backend.
Executed == exec_pc = "done" /\ sent # None

\* C18: for a text T = P ++ S, P a run of white space and complete comments
\* and S starting with a non-comment token, T is classified as S is, and S
\* is a Query exactly when, case-folded, it starts with SELECT or WITH.
C18_Claim ==
  (Executed /\ AfterComments(sql_content) # <<>>) =>
    /\ classify(sql_content) = classify(AfterComments(sql_content))
    /\ classify(AfterComments(sql_content)) = "Query"
         <=> LeadsWithKeyword(AfterComments(sql_content))
    /\ sent[1].api = "query" <=> classify(sql_content) = "Query"

\* C19: a text of comments and white space only, a last comment that is not
\* closed included, is classified as Command, and every pass of the
\* stripping loop that does not leave it shortens the text, so the loop ends.
C19_Claim ==
  /\ []((Executed /\ AfterComments(sql_content) = <<>>) =>
          (sent[1].api = "batch_execute"
             /\ classify(sql_content) = "Command"))
  /\ [][(exec_pc = "loop" /\ exec_pc' = "loop") =>
          Len(relevant_sql') < Len(relevant_sql)]_vars

\* C20: what is sent to the backend is the original text of the script, on
\* the query path and on the command path; stripping only decides the path.
C20_OriginalSent == sent # None => sent[1].text = sql_content

\* A query whose leading comment was stripped for the classification went
\* out with the comment.
C20_Witness ==
  /\ Executed
  /\ sent[1].api = "query"
  /\ sent[1].text = sql_content
  /\ Len(relevant_sql) < Len(sql_content)
  /\ StartsWith(sql_content, <<45, 45>>)


\* The pieces of s between the occurrences of sep.
RECURSIVE SplitOn(_, _)
SplitOn(s, sep) ==
  LET at == FirstAt(s, sep, 1)
  IN IF at = 0 THEN <<s>>
     ELSE <<SubSeq(s, 1, at - 1)>> \o
          SplitOn(SubSeq(s, at + Len(sep), Len(s)), sep)

\* The lines of a text in which every line ends with a line feed, and the
\* cells of a line in which every cell ends with " | ", without the padding.
LinesOf(text) == LET p == SplitOn(text, <<10>>) IN SubSeq(p, 1, Len(p) - 1)
CellsOfLine(line) ==
  LET p == SplitOn(line, <<32, 124, 32>>)
  IN [i \in 1..(Len(p) - 1) |-> TrimEnd(p[i])]

Maximum(S) == CHOOSE m \in S : \A n \in S : n <= m

\* execute_sql took the query path to the end.
QueryExecuted == Executed /\ sent[1].api = "query"

\* The query returned rows and the table made of them is shown.
Rendered == QueryExecuted /\ reply.ok /\ reply.rows # <<>>

\* The table that is shown.
Output == query_result[2]

\* C21: a query that returns no rows gives the message "Query returned 0
\* rows." and a displayed row count of Some(0): not a table of a header
\* only, and not a row count of None.
C21_Claim ==
  (QueryExecuted /\ reply.ok /\ reply.rows = <<>>) =>
    /\ query_result = Msg("Query returned 0 rows.")
    /\ query_row_count = Some(0)

\* The row r of the reply with NULL in the place of every cell that failed
\* to decode.
Healed(row) ==
  [i \in 1..Len(row) |->
     IF row[i].kind = "err"
     THEN [kind |-> "null", b |-> FALSE, n |-> 0, s |-> <<>>] ELSE row[i]]

\* C22: a cell that fails to decode is shown as "<Err: e>", or "<type: e>"
\* in the fallback arm, and ends neither the row nor the query: every other
\* cell has the text it has without the failure, and there is one rendered
\* row for every row returned.
C22_DecodeFailure ==
  Rendered =>
    /\ query_result = FormattedResult(format_table(column_names, widths,
                                                   rows_data))
    /\ Len(rows_data) = Len(reply.rows)
    /\ Len(LinesOf(data_lines(rows_data, widths))) >= Len(reply.rows)
    /\ \A r \in 1..Len(reply.rows) :
         /\ Len(rows_data[r]) = Len(reply.columns)
         /\ \A i \in 1..Len(reply.columns) :
              LET cell == reply.rows[r][i]
                  type == reply.columns[i].type
              IN IF cell.kind = "err"
                 THEN \/ rows_data[r][i] =
                           <<60, 69, 114, 114, 58, 32>> \o cell.s \o <<62>>
                      \/ /\ type \notin {"bool", "int4", "text"}
                         /\ rows_data[r][i] =
                              <<60>> \o TypeName(type) \o <<58, 32>>
                                \o cell.s \o <<62>>
                 ELSE rows_data[r][i] =
                        row_values(reply.columns, Healed(reply.rows[r]))[i]

\* Two rows were returned; in one of them a cell failed to decode and the
\* cell after it did not.
C22_Witness ==
  /\ Rendered
  /\ Len(reply.rows) = 2
  /\ \E r \in 1..2 :
       /\ Len(reply.columns) = 2
       /\ reply.rows[r][1].kind = "err"
       /\ reply.rows[r][2].kind = "some"
       /\ rows_data[r][2] # rows_data[r][1]

\* The cells of a row of the sqlite variant: row.get(i), and "NULL" when it
\* fails.
Sqlite_values(row) ==
  [i \in 1..Len(row) |->
     IF row[i].kind = "some" THEN row[i].s ELSE <<78, 85, 76, 76>>]

\* The widths of the sqlite variant after the rows: the closure of query_map
\* applied to every row.
RECURSIVE Sqlite_widths(_, _)
Sqlite_widths(ws, rows) ==
  IF rows = <<>> THEN ws
  ELSE Sqlite_widths([i \in 1..Len(ws) |->
                        widen(ws[i], Sqlite_values(Head(rows))[i])],
                     Tail(rows))

\* C23: for a result set that is not empty, the width of a column is the
\* maximum of the length of its header and of the lengths of its rendered
\* cells.
C23_Widths ==
  Rendered =>
    /\ Len(widths) = Len(reply.columns)
    /\ \A i \in 1..Len(widths) :
         /\ widths[i] =
              Maximum({len(column_names[i])} \cup
                      {len(rows_data[r][i]) : r \in 1..Len(rows_data)})
         /\ widths[i] >= Len(column_names[i])
         /\ \A r \in 1..Len(rows_data) : widths[i] >= Len(rows_data[r][i])
    /\ LET names == [i \in 1..Len(reply.columns) |-> reply.columns[i].name]
           ws == Sqlite_widths([i \in 1..Len(names) |-> len(names[i])],
                               reply.rows)
       IN \A i \in 1..Len(names) :
            ws[i] =
              Maximum({len(names[i])} \cup
                      {len(Sqlite_values(reply.rows[r])[i]) :
                         r \in 1..Len(reply.rows)})

\* A cell is longer than the header of its column, and a cell of another row
\* of that column is shorter.
C23_Witness ==
  /\ Rendered
  /\ \E i \in 1..Len(widths) :
       /\ widths[i] > len(column_names[i])
       /\ \E r \in 1..Len(rows_data) : len(rows_data[r][i]) < widths[i]
       /\ \E r \in 1..Len(rows_data) : Len(rows_data[r][i]) < len(rows_data[r][i])

\* C24: the table of a row set R has 2 + |R| lines, whatever the text of
\* the cells: the header, a line of width + 3 dashes for every column, and a
\* line for every row.
C24_Claim ==
  Rendered =>
    /\ Len(LinesOf(Output)) = 2 + Len(reply.rows)
    /\ LinesOf(Output)[2] = Flatten([i \in 1..Len(widths) |->
                                       [j \in 1..(widths[i] + 3) |-> 45]])

\* No cell of the reply holds a line feed.
SingleLineCells ==
  \A r \in 1..Len(reply.rows) : \A i \in 1..Len(reply.columns) :
    10 \notin {reply.rows[r][i].s[k] : k \in 1..Len(reply.rows[r][i].s)}

\* C25: the columns of the table are in the declared order of the result
\* set and the rows in the order the backend returned them; none is
\* reordered, dropped or repeated.
C25_Order ==
  Rendered =>
    /\ column_names = [i \in 1..Len(reply.columns) |-> reply.columns[i].name]
    /\ rows_data = [r \in 1..Len(reply.rows) |->
                      [i \in 1..Len(reply.columns) |->
                         val_str(reply.columns[i].type, reply.rows[r][i])]]
    /\ SingleLineCells =>
         /\ Len(LinesOf(Output)) = 2 + Len(reply.rows)
         /\ CellsOfLine(LinesOf(Output)[1]) =
              [i \in 1..Len(reply.columns) |-> reply.columns[i].name]
         /\ \A r \in 1..Len(reply.rows) :
              CellsOfLine(LinesOf(Output)[2 + r]) =
                [i \in 1..Len(reply.columns) |->
                   val_str(reply.columns[i].type, reply.rows[r][i])]

\* Two rows with different texts under two columns with different names.
C25_Witness ==
  /\ Rendered
  /\ SingleLineCells
  /\ Len(reply.rows) = 2
  /\ Len(reply.columns) = 2
  /\ reply.columns[1].name # reply.columns[2].name
  /\ rows_data[1] # rows_data[2]
  /\ rows_data[1][1] # rows_data[1][2]
  /\ CellsOfLine(LinesOf(Output)[3]) = rows_data[1]


\* list(): the names a reload of the catalog finds in the store, in order.
Listing ==
  IF variant = "db"
  THEN NamesOf(get_all_scripts(db[client], TRUE).list)
  ELSE LET found == rescan_scripts(files, TRUE, sql_files, list_state,
                                   script_content_preview).sql_files
       IN [i \in 1..Len(found) |-> FileStem(found[i])]

Occurrences(seq, x) == Cardinality({i \in 1..Len(seq) : seq[i] = x})

\* One of the calls of the key event is among the named ones.
Called(c, names) == \E i \in 1..Len(c) : c[i] \in names

\* The scripts of the store, as name and content, without those named.
EntriesBut(names) ==
  IF variant = "db"
  THEN {[name |-> r.name, content |-> r.content] :
          r \in {x \in db[client].rows : x.name \notin names}}
  ELSE {[name |-> FileStem(p), content |-> files[p]] :
          p \in {q \in DOMAIN files : FileStem(q) \notin names}}

\* The contents the store holds under the names.
ContentsOf(names) ==
  IF variant = "db"
  THEN {r.content : r \in {x \in db[client].rows : x.name \in names}}
  ELSE {files[p] : p \in {q \in DOMAIN files : FileStem(q) \in names}}

C27_CreateConflict ==
  [][(KeyEvent("EditingFilename", "Enter")
        /\ NameTaken(Trim(filename_input))) =>
       /\ calls' \in {<<"create_script:Err">>, <<"exists">>}
       /\ query_result' \in
            {Msg("Error creating script"), Msg("Error: File already exists.")}
       /\ UNCHANGED <<db, files, scripts, sql_files, list_state,
                      script_content_preview>>
       /\ Listing' = Listing
       /\ ContentsOf({Trim(filename_input)})' =
            ContentsOf({Trim(filename_input)})]_vars

\* A create was refused for the name of a script whose content had been
\* edited.
C27_Witness ==
  /\ last = [mode |-> "EditingFilename", key |-> "Enter"]
  /\ calls \in {<<"create_script:Err">>, <<"exists">>}
  /\ ContentsOf({Trim(filename_input)}) = {"SELECT 1"}
  /\ Len(Listing) = 2

\* C28: confirming the deletion of the selected script when it is the only
\* one left leaves the catalog empty, nothing selected and the preview
\* without the content of the script.
C28_DeleteLast ==
  [][(KeyEvent("ConfirmingDelete", "y")
        /\ OldNames # {}
        /\ StoredNames = OldNames
        /\ Called(calls', {"delete_script:Ok", "remove_file:Ok"})
        /\ Called(calls', {"refresh_scripts:Ok", "rescan_scripts:Ok"})) =>
       /\ Catalog' = <<>>
       /\ StoredNames' = {}
       /\ list_state' = None
       /\ script_content_preview' \in
            {"No scripts found.", "No SQL files found."}]_vars

\* The only script, with a content of its own, was selected and deleted.
C28_Witness ==
  /\ last = [mode |-> "ConfirmingDelete", key |-> "y"]
  /\ calls = <<"delete_script:Ok", "refresh_scripts:Ok">>
  /\ scripts = <<>>
  /\ db[client].next = 2
  /\ script_content_preview = "No scripts found."
  /\ keys >= 7

ContentChanged ==
  {x \in Databases \X (1..(MaxCreated + 1)) :
     \E r \in db[x[1]].rows, q \in db'[x[1]].rows :
       r.id = x[2] /\ q.id = x[2] /\ r.content # q.content}
    \cup {p \in (DOMAIN files) \cap (DOMAIN files') : files'[p] # files[p]}

\* The script the edit key is about.
EditTarget ==
  IF variant = "db"
  THEN LET sel == get_selected_script(scripts, list_state)
       IN IF sel = None THEN {} ELSE {<<client, sel[1].id>>}
  ELSE LET p == SelectedPath(sql_files, list_state)
       IN IF p = None THEN {} ELSE {p[1]}

\* The create of the key event went through.
Created ==
  /\ KeyEvent("EditingFilename", "Enter")
  /\ Called(calls', {"create_script:Ok", "fs::write:Ok"})

\* C30 as claimed: a script is created with empty content, and the content
\* of a script changes only by the edit key on that script with an editor
\* that exits with success; no other key changes the content of any script.
C30_Original ==
  [][/\ Created => ContentsOf({Trim(filename_input)})' = {""}
     /\ ContentChanged # {} =>
          /\ KeyEvent("Normal", "e")
          /\ Called(calls', {"open_editor:true"})
          /\ ContentChanged \subseteq EditTarget]_vars

\* C30 as amended: a script is created with empty content in the database
\* variant; in the file variant it is created with the line
\* "-- New SQL Script" and opened in the editor at once, so it holds that
\* line or what the editor left. Afterwards the content of a script changes
\* only by the edit key on that script: in the database variant only when
\* the editor exits with success and the text is saved, in the file variant
\* by whatever the editor wrote to the file, its exit status
\* notwithstanding. No other key changes the content of any script.
C30_Amended ==
  [][/\ Created =>
          ContentsOf({Trim(filename_input)})' \in
            IF variant = "db" THEN {{""}}
            ELSE IF Called(calls', {"open_editor:Err"})
            THEN {{"-- New SQL Script\n"}}
            ELSE {{"-- New SQL Script\n"}, {""}, {"SELECT 1"}}
     /\ ContentChanged # {} =>
          /\ KeyEvent("Normal", "e")
          /\ ContentChanged \subseteq EditTarget
          /\ variant = "db" =>
               /\ Called(calls', {"open_editor:true"})
               /\ Called(calls', {"update_script_content:Ok"})
     /\ (KeyEvent("Normal", "e") /\ variant = "db"
           /\ ~Called(calls', {"update_script_content:Ok"})) =>
          UNCHANGED db]_vars

\* In the file variant an editor that exited with failure was the last to
\* work on the selected script, which does not hold the line it was created
\* with.
C30_Witness ==
  /\ variant = "fs"
  /\ last = [mode |-> "Normal", key |-> "e"]
  /\ calls = <<"open_editor:false", "rescan_scripts:Ok">>
  /\ list_state # None
  /\ script_content_preview = "SELECT 1"
  /\ keys = 4


\* The editor run by the last key event exited with a non-zero status.
EditorFailed == \E i \in 1..Len(calls) : calls[i] = "open_editor:false"

EditorMessages ==
  { Msg("Editor exited with error."), Msg("Editor exited with an error.") }

\* A reload of the catalog was issued after the editor returned.
RescannedAfterEditor ==
  \E i \in 1..Len(calls) :
    /\ calls[i] = "open_editor:false"
    /\ \E j \in (i + 1)..Len(calls) : calls[j] \in RefreshCalls

\* C31: when the external editor exits with a non-zero status, the failure
\* is reported as a message and the catalog is still refreshed afterwards in
\* the same key event.
C31_Original ==
  EditorFailed => query_result \in EditorMessages /\ RescannedAfterEditor

\* C31 as the code has it: the failure is always reported as a message; the
\* file variant rescans the directory afterwards in the same event, the
\* database variant reloads nothing and leaves catalog, selection, preview
\* and store as they were.
C31_Amended ==
  /\ [](EditorFailed =>
          /\ query_result \in EditorMessages
          /\ variant = "fs" => RescannedAfterEditor
          /\ variant = "db" => ~\E i \in 1..Len(calls) : calls[i] \in RefreshCalls)
  /\ [][(keys' = keys + 1 /\ variant = "db" /\ EditorFailed') =>
          UNCHANGED <<scripts, list_state, script_content_preview, db>>]_vars

\* The editor of the file variant failed on a script it had rewritten, and
\* the rescan that followed shows what it left.
C31_Witness ==
  /\ variant = "fs"
  /\ last = [mode |-> "Normal", key |-> "e"]
  /\ calls = <<"open_editor:false", "rescan_scripts:Ok">>
  /\ query_result = Msg("Editor exited with an error.")
  /\ script_content_preview = "SELECT 1"


\* What the result pane shows when the backend could not be reached or
\* the run failed as a whole.
RunFailureMessages ==
  { Msg("Error executing query"), Msg("Error opening database"),
    Msg("Error connecting to database") }

\* The step is a run of the selected script that ends in a failure of the
\* connection: the run key with execute_sql returning the failure, or the
\* return of execute_sql at the connect.
ConnectionFailure ==
  \/ /\ KeyEvent("Normal", "Enter")
     /\ calls' = <<"execute_sql">>
     /\ query_result' \in RunFailureMessages
  \/ exec_pc = "start" /\ exec_pc' = "done"

\* C32: a connection-level failure while running the selected script aborts
\* only that action: the failure is shown as a message in the result pane,
\* the session goes on, and mode, catalog, selection, preview, store and
\* active connection are the same as before the run.
C32_ConnectionFailure ==
  [][ConnectionFailure =>
       /\ query_result' \in RunFailureMessages
       /\ running' = running
       /\ UNCHANGED <<input_mode, scripts, sql_files, list_state,
                      script_content_preview, client,
                      current_connection_name, connections, db, files>>]_vars

\* The second of two scripts was run and the run failed.
C32_Witness ==
  /\ variant = "db"
  /\ last = [mode |-> "Normal", key |-> "Enter"]
  /\ calls = <<"execute_sql">>
  /\ query_result = Msg("Error executing query")
  /\ input_mode = "Normal"
  /\ Len(scripts) = 2
  /\ list_state = Some(1)


\* C33: both scroll offsets are non-negative (and within 16 bits) in every
\* reachable state; scrolling left by more than the horizontal offset and
\* scrolling up at vertical offset 0 leave the offset at 0, and scrolling
\* right or down stops at the maximum of the 16-bit offset instead of
\* wrapping.
C33_Scroll ==
  /\ [](result_scroll_x \in 0..U16Max /\ result_scroll_y \in 0..U16Max)
  /\ [][KeyEvent("Normal", "h") =>
          /\ result_scroll_x' =
               IF result_scroll_x <= 4 THEN 0 ELSE result_scroll_x - 4
          /\ result_scroll_y' = result_scroll_y]_vars
  /\ [][KeyEvent("Normal", "Up") =>
          /\ result_scroll_y' =
               IF result_scroll_y = 0 THEN 0 ELSE result_scroll_y - 1
          /\ result_scroll_x' = result_scroll_x]_vars
  /\ [][KeyEvent("Normal", "l") =>
          /\ result_scroll_x' >= result_scroll_x
          /\ result_scroll_x' =
               IF result_scroll_x >= U16Max - 4 THEN U16Max
               ELSE result_scroll_x + 4
          /\ result_scroll_y' = result_scroll_y]_vars
  /\ [][KeyEvent("Normal", "Down") =>
          /\ result_scroll_y' >= result_scroll_y
          /\ result_scroll_y' =
               IF result_scroll_y = U16Max THEN U16Max
               ELSE result_scroll_y + 1
          /\ result_scroll_x' = result_scroll_x]_vars

\* Scrolling right two columns short of the end stopped at the end, with
\* the vertical offset at the top after scrolling up there.
C33_Witness ==
  /\ last = [mode |-> "Normal", key |-> "l"]
  /\ keys >= 2
  /\ result_scroll_x = U16Max
  /\ result_scroll_y = 0


\* The statement of the script was sent and the backend answered Err(e).
StatementFailed == Executed /\ ~reply.ok

\* The lines of the text the result pane shows after the context.
ErrorLines == SplitOn(query_result[2], <<10>>)

\* A line of the error text that starts with the label; a field is shown
\* when such a line carries its text (white space at the end apart).
Labelled(label) ==
  {i \in 1..Len(ErrorLines) : StartsWith(ErrorLines[i], label)}
Shown(label, text) ==
  \E i \in Labelled(label) :
    TrimEnd(ErrorLines[i]) = TrimEnd(label \o <<32>> \o text)

\* "Message:", "Detail:", "Hint:", "Position:"
MessageLabel == <<77, 101, 115, 115, 97, 103, 101, 58>>
DetailLabel == <<68, 101, 116, 97, 105, 108, 58>>
HintLabel == <<72, 105, 110, 116, 58>>
PositionLabel == <<80, 111, 115, 105, 116, 105, 111, 110, 58>>

\* C34: a statement-level failure is shown with the context, the code and
\* the message always, and with a detail, hint and position line exactly
\* when the backend supplied the field; a failure that is not a
\* statement-level failure is shown as context and text, without any of
\* these lines.
C34_StatementError ==
  StatementFailed =>
    LET e == reply.error
    IN /\ query_result[1] =
            IF sent[1].api = "query" THEN "Error executing query"
            ELSE "Error executing command"
       /\ query_row_count = None
       /\ IF e.db
          THEN /\ Find(ErrorLines[1], e.code) # None
               /\ Shown(MessageLabel, e.message)
               /\ IF e.detail # None THEN Shown(DetailLabel, e.detail[1])
                  ELSE Labelled(DetailLabel) = {}
               /\ IF e.hint # None THEN Shown(HintLabel, e.hint[1])
                  ELSE Labelled(HintLabel) = {}
               /\ IF e.position # None
                  THEN \E i \in Labelled(PositionLabel) :
                         Find(ErrorLines[i], Digits(e.position[1])) # None
                  ELSE Labelled(PositionLabel) = {}
          ELSE /\ query_result[2] = <<58, 32>> \o e.display
               /\ Labelled(MessageLabel) \cup Labelled(DetailLabel)
                    \cup Labelled(HintLabel) \cup Labelled(PositionLabel) = {}

\* A query failed with a message that ends in a space, an empty hint and a
\* position, and without a detail.
C34_Witness ==
  /\ StatementFailed
  /\ sent[1].api = "query"
  /\ reply.error.db
  /\ reply.error.message = <<109, 32>>
  /\ reply.error.detail = None
  /\ reply.error.hint = Some(<<>>)
  /\ reply.error.position = Some(7)
  /\ Len(ErrorLines) = 5


\* The strings of the sequence are in strictly ascending order.
Ascending(seq) == \A i \in 1..(Len(seq) - 1) : StrLess(seq[i], seq[i + 1])

\* C35: the catalog sequence is in ascending order of name (database
\* variant) or of path (file variant) after every refresh, and so in every
\* state, since only a refresh assigns it: the order in which the scripts
\* were created or renamed does not show.
C35_Sorted ==
  Ascending(IF variant = "db" THEN NamesOf(scripts) ELSE sql_files)

\* Two scripts of which the one created last comes first in the catalog.
C35_Witness ==
  /\ variant = "db"
  /\ Len(scripts) = 2
  /\ scripts[1].id > scripts[2].id
  /\ LastCall(calls) = "refresh_scripts:Ok"


\* C36: after every key event that the session survives, the preview is the
\* content of the selected script of the in-memory catalog, or the
\* placeholder when nothing is selected; no key event changes the selection
\* or the catalog without recomputing the preview.
C36_Preview ==
  /\ [](running = "running" => script_content_preview = PreviewOfSelection)
  /\ [][(running' = "running"
            /\ (list_state' # list_state \/ Catalog' # Catalog)) =>
          script_content_preview' = PreviewOfSelection']_vars

\* A create selected the new script, which is not the first of the catalog,
\* and the preview went from the text of the other script to the empty one.
C36_Witness ==
  /\ variant = "db"
  /\ last = [mode |-> "EditingFilename", key |-> "Enter"]
  /\ Len(scripts) = 2
  /\ list_state = Some(1)
  /\ scripts[1].content = "SELECT 1"
  /\ script_content_preview = ""


\* The step removes a script from a store.
Deleted ==
  IF variant = "db"
  THEN \E d \in Databases : \E r \in db[d].rows :
         \A q \in db'[d].rows : q.id # r.id
  ELSE Cardinality(DOMAIN files') < Cardinality(DOMAIN files)

\* The step removes the selected script of the catalog from the store the
\* session works on, and nothing else.
DeletedSelected ==
  /\ list_state # None /\ list_state[1] < Len(Catalog)
  /\ IF variant = "db"
     THEN LET sel == scripts[list_state[1] + 1]
          IN /\ \E r \in db[client].rows : r.id = sel.id
             /\ db' = [db EXCEPT ![client].rows = {r \in @ : r.id # sel.id}]
     ELSE LET p == sql_files[list_state[1] + 1]
          IN /\ p \in DOMAIN files
             /\ files' = [q \in DOMAIN files \ {p} |-> files[q]]

\* The name the prompt of ConfirmingDelete asks about.
SelectedName ==
  IF variant = "db" THEN scripts[list_state[1] + 1].name
  ELSE FileStem(sql_files[list_state[1] + 1])

\* C37: a script is deleted only by 'y' in ConfirmingDelete, and it is the
\* script that is selected and named in the prompt since the mode was
\* entered (the prompt stays as long as the session waits there); 'n' or Esc returns to Normal with catalog and selection
\* unchanged; any other key leaves mode, selection and catalog unchanged.
C37_Delete ==
  /\ [][Deleted => KeyEvent("ConfirmingDelete", "y") /\ DeletedSelected]_vars
  /\ []((input_mode = "ConfirmingDelete" /\ running = "running") =>
          /\ list_state # None /\ list_state[1] < Len(Catalog)
          /\ query_result[2] = SelectedName)
  /\ [][(input_mode = "ConfirmingDelete" /\ input_mode' = "ConfirmingDelete"
            /\ running' = "running")
          => UNCHANGED <<list_state, query_result>> /\ CatalogUnchanged]_vars
  /\ [][KeyEvent("ConfirmingDelete", "n") =>
          /\ input_mode' = "Normal"
          /\ UNCHANGED list_state
          /\ CatalogUnchanged]_vars
  /\ [][KeyEvent("ConfirmingDelete", "other") =>
          /\ UNCHANGED <<input_mode, list_state>>
          /\ CatalogUnchanged]_vars

\* The second of two scripts was selected, named in the prompt and deleted;
\* the first is what is left.
C37_Witness ==
  /\ variant = "db"
  /\ last = [mode |-> "ConfirmingDelete", key |-> "y"]
  /\ calls = <<"delete_script:Ok", "refresh_scripts:Ok">>
  /\ db[client].next = 3
  /\ Len(scripts) = 1
  /\ scripts[1].id = 1


\* C38: every key event that replaces the text of the result pane also
\* resets both scroll offsets to zero, the message of a successful
\* connection switch included.
C38_Claim ==
  [][(keys' = keys + 1 /\ query_result' # query_result) =>
       (result_scroll_x' = 0 /\ result_scroll_y' = 0)]_vars

\* The same for every key event but the connection switch that succeeds.
ScrollResetButSwitch ==
  [][(keys' = keys + 1 /\ query_result' # query_result
        /\ query_result' # Msg("Switched to database")) =>
       (result_scroll_x' = 0 /\ result_scroll_y' = 0)]_vars


\* C39: the connection map only grows during a session: no key event
\* removes a connection or changes the url stored under a name, the
\* add-connection flow included, and the name of the current connection is
\* always a key of the map.
C39_AppendOnly ==
  /\ [][\A n \in DOMAIN connections :
          n \in DOMAIN connections' /\ connections'[n] = connections[n]]_vars
  /\ [](variant = "db" => current_connection_name \in DOMAIN connections)

\* A connection was added under a new name and switched to; the first
\* connection is still there with its url.
C39_Witness ==
  /\ last = [mode |-> "SelectingConnection", key |-> "Enter"]
  /\ Cardinality(DOMAIN connections) = 2
  /\ current_connection_name # InitName
  /\ connections[InitName] = InitUrl
  /\ client = Host(connections[current_connection_name])


\* The arm that handles Esc in a mode: in Normal Esc is one of the keys
\* without an arm, in ConfirmingDelete it shares the arm of 'n'.
EscArm(m) ==
  IF m = "Normal" THEN "other"
  ELSE IF m = "ConfirmingDelete" THEN "n" ELSE "Esc"

\* The step is Esc; the key event before this state was Esc.
EscEvent == KeyEvent(input_mode, EscArm(input_mode))
WasEsc == keys > 0 /\ last.key = EscArm(last.mode)

\* The number of Esc presses that lead from a mode to Normal.
EscDistance(m) ==
  IF m = "Normal" THEN 0
  ELSE IF m \in {"AddingConnectionName", "AddingConnectionUrl"} THEN 2
  ELSE 1

\* C40: from every mode Esc pressed at most twice brings the session to
\* Normal: each Esc moves one mode closer to Normal, no mode is further than
\* two away, and the second of two Esc in a row always ends in Normal; on
\* the way the session goes on and no catalog, store, connection map, saved
\* configuration or active connection changes.
C40_Escape ==
  /\ [][EscEvent =>
          /\ EscDistance(input_mode') =
               IF input_mode = "Normal" THEN 0 ELSE EscDistance(input_mode) - 1
          /\ UNCHANGED <<running, list_state, script_content_preview>>
          /\ CatalogUnchanged
          /\ UNCHANGED <<connections, saved_config, client,
                         current_connection_name>>]_vars
  /\ [][(EscEvent /\ WasEsc) => input_mode' = "Normal"]_vars

\* The url entry of a new connection was left by Esc and the connection
\* list by another Esc: nothing was added.
C40_Witness ==
  /\ last = [mode |-> "SelectingConnection", key |-> "Esc"]
  /\ input_mode = "Normal"
  /\ new_connection_name_buffer # <<>>
  /\ Cardinality(DOMAIN connections) = 1
  /\ keys = 7

====
